---- MODULE Spec2Model ----
(***************************************************************************)
(* Model of the territory pipeline of bot.js: the ingestion endpoint       *)
(* (POST /api/territory), the read endpoint (GET /api/territory), the      *)
(* territory publisher (updateTerritoryMap) with its display slot          *)
(* (territoryMessageId), the start-up handler (clientReady) and the        *)
(* periodic timer (setInterval).                                           *)
(*                                                                         *)
(* JavaScript runs one synchronous segment at a time; a segment ends at an *)
(* await.  Every action below is one such segment: a request handler up to *)
(* its response, or the continuation of updateTerritoryMap that runs when  *)
(* one awaited promise settles.                                            *)
(***************************************************************************)
EXTENDS Integers, Sequences, FiniteSets, Bags, TLC

\* ------------------------------------------------------------------ bounds
\* number of updateTerritoryMap calls that may be in flight together
MaxInFlight == 2
\* number of messages the channel accepts in one behaviour
MaxMsgs == 3

MsgIds == 1..MaxMsgs

\* number of points handed to one convexHull call, and the largest coordinate
\* of such a point
MaxPoints == 4
MaxCoord == 2
\* number of bases in the snapshot handed to one generateMapImage call
MaxBases == 4
\* length of warState.participants up to which the war commands are followed
MaxParticipants == 4
\* number of /choosenationality commands handled at the same time
MaxCommands == 2

\* lines 291-292
MAP_SIZE == 12800
CANVAS_SIZE == 1200

\* ------------------------------------------------------- JSON texts, values
\* A text is a sequence of tokens.  A base token ("b1") stands for the JSON
\* text of one base object.
BaseTokens == {"b1", "b2"}
BasesPrefix == "{\"bases\":"
StampToken == "\"lastUpdate\":T"
NullStampToken == "\"lastUpdate\":null"

\* A JSON value: kind is the JavaScript shape, bases the list of base tokens
\* (the "bases" property of an object, the elements of an array), lastUpdate
\* the state of the lastUpdate property ("absent", "null" or "stamp").
JVal(k, b, u) == [kind |-> k, bases |-> b, lastUpdate |-> u]
NullVal == JVal("null", <<>>, "absent")
NumberVal == JVal("number", <<>>, "absent")

\* territoryData.bases && territoryData.bases.length > 0
HasBases(v) == v.kind = "object" /\ Len(v.bases) > 0

\* the base list a reader of the snapshot sees (undefined reads as no bases)
BasesSeen(v) == IF v.kind = "object" THEN v.bases ELSE <<>>

RECURSIVE JoinItems(_)
JoinItems(b) ==
    IF Len(b) = 0 THEN <<>>
    ELSE IF Len(b) = 1 THEN <<b[1]>>
    ELSE <<b[1], ",">> \o JoinItems(Tail(b))

\* JSON.stringify: an object keeps its properties in insertion order, an array
\* loses a non-index property such as lastUpdate, a number and null are
\* written as they are.
JSONStringify(v) ==
    CASE v.kind = "object" ->
            <<BasesPrefix, "[">> \o JoinItems(v.bases) \o <<"]">>
            \o (CASE v.lastUpdate = "stamp" -> <<",", StampToken>>
                  [] v.lastUpdate = "null" -> <<",", NullStampToken>>
                  [] OTHER -> <<>>)
            \o <<"}">>
      [] v.kind = "array" -> <<"[">> \o JoinItems(v.bases) \o <<"]">>
      [] v.kind = "number" -> <<"5">>
      [] OTHER -> <<"null">>

\* a comma-separated list of base texts
IsItems(s) ==
    \/ Len(s) = 0
    \/ /\ Len(s) % 2 = 1
       /\ \A i \in 1..Len(s) : IF i % 2 = 1 THEN s[i] \in BaseTokens ELSE s[i] = ","

ItemsOf(s) == [i \in 1..((Len(s) + 1) \div 2) |-> s[2 * i - 1]]

IsArrayText(t) ==
    /\ Len(t) >= 2
    /\ t[1] = "["
    /\ t[Len(t)] = "]"
    /\ IsItems(SubSeq(t, 2, Len(t) - 1))

\* position of the "]" that closes the bases array of an object text, or 0
CloseOf(t) ==
    IF \E i \in 1..Len(t) : t[i] = "]"
    THEN CHOOSE i \in 1..Len(t) : t[i] = "]" /\ \A j \in 1..(i - 1) : t[j] # "]"
    ELSE 0

StampTail(s) ==
    \/ s = <<"}">>
    \/ s = <<",", StampToken, "}">>
    \/ s = <<",", NullStampToken, "}">>

IsObjectText(t) ==
    /\ Len(t) >= 4
    /\ t[1] = BasesPrefix
    /\ t[2] = "["
    /\ CloseOf(t) >= 3
    /\ IsItems(SubSeq(t, 3, CloseOf(t) - 1))
    /\ StampTail(SubSeq(t, CloseOf(t) + 1, Len(t)))

\* JSON.parse: ParseOK is FALSE where it throws a SyntaxError
ParseOK(t) ==
    \/ t = <<"null">>
    \/ t = <<"5">>
    \/ IsArrayText(t)
    \/ IsObjectText(t)

ParseVal(t) ==
    CASE t = <<"null">> -> NullVal
      [] t = <<"5">> -> NumberVal
      [] IsArrayText(t) -> JVal("array", ItemsOf(SubSeq(t, 2, Len(t) - 1)), "absent")
      [] IsObjectText(t) ->
            JVal("object", ItemsOf(SubSeq(t, 3, CloseOf(t) - 1)),
                 IF t[Len(t) - 1] = StampToken THEN "stamp"
                 ELSE IF t[Len(t) - 1] = NullStampToken THEN "null"
                 ELSE "absent")
      [] OTHER -> NullVal

\* ------------------------------------------------------------ request bodies
\* req.body after the three body parsers: shape "mapping" is a non-array
\* object (keys: its own keys in order, each a text; inner: the keys of the
\* value under its first key; val: the object itself as a value), shape
\* "array" a parsed JSON array, shape "string" a raw text body.
Body(sh, ks, inn, v, t) == [shape |-> sh, keys |-> ks, inner |-> inn, val |-> v, text |-> t]

ObjectBody(b) == Body("mapping", << <<"bases">> >>, <<>>, JVal("object", b, "absent"), <<>>)
MangledBody(inn) == Body("mapping", << <<BasesPrefix>> >>, inn, JVal("object", <<>>, "absent"), <<>>)
ArrayBody(b) == Body("array", <<>>, <<>>, JVal("array", b, "absent"), <<>>)
StringBody(t) == Body("string", <<>>, <<>>, NullVal, t)

TruncatedText == <<BasesPrefix, "[", "b1">>

\* the bodies the game server sends when all goes well
PlainBodies == {ObjectBody(<<"b1">>), ObjectBody(<<>>)}

Bodies ==
    PlainBodies
    \cup {MangledBody(<< <<"b2">> >>), MangledBody(<<>>)}
    \cup {ArrayBody(<<"b1">>)}
    \cup {StringBody(t) : t \in {<<BasesPrefix, "[", "b1", "]", "}">>, <<"null">>, <<"5">>,
                                 TruncatedText}}

\* firstKey.startsWith('{')
StartsWithBrace(key) == Len(key) > 0 /\ key[1] \in {BasesPrefix, "{"}

\* a reconstruction that forgets the brackets of the array
Reconstructed_NoBrackets(body) ==
    <<BasesPrefix>>
    \o (IF Len(body.inner) > 0 THEN body.inner[1] ELSE <<"undefined">>)
    \o <<"}">>

\* '{"bases":[' + arrayContent + ']}' ; an absent nested key concatenates as
\* the text "undefined"
Reconstructed(body) ==
    <<BasesPrefix, "[">>
    \o (IF Len(body.inner) > 0 THEN body.inner[1] ELSE <<"undefined">>)
    \o <<"]", "}">>

IsMangled(body) ==
    body.shape = "mapping" /\ Len(body.keys) > 0 /\ StartsWithBrace(body.keys[1])

\* the text handed to JSON.parse, for the bodies that are parsed
TextToParse(body) == IF IsMangled(body) THEN Reconstructed(body) ELSE body.text

NeedsParse(body) == IsMangled(body) \/ body.shape = "string"

\* lines 1472-1491: FALSE when JSON.parse throws
BodyParses(body) == NeedsParse(body) => ParseOK(TextToParse(body))

\* lines 1472-1491: parsedData
ParsedData(body) == IF NeedsParse(body) THEN ParseVal(TextToParse(body)) ELSE body.val

\* line 1494: territoryData.lastUpdate = new Date().toISOString().  Setting a
\* property of null throws; on a number it is dropped (the file is not in
\* strict mode); on an object or an array it is stored.
StampThrows(v) == v.kind = "null"
Stamped(v) == IF v.kind \in {"object", "array"} THEN [v EXCEPT !.lastUpdate = "stamp"] ELSE v

\* lines 1475-1491: the branch of the handler that makes parsedData
Branch(body) ==
    IF body.shape = "mapping"
    THEN IF IsMangled(body) THEN "reconstructed" ELSE "asIs"
    ELSE IF body.shape = "string" THEN "parsed" ELSE "asIs"

\* lines 1472-1494: what the handler makes of a body: the branch taken,
\* whether JSON.parse returned, parsedData, whether the stamp threw, and
\* territoryData after the stamp
IngestBody(body) ==
    [how |-> Branch(body),
     ok |-> BodyParses(body),
     val |-> IF BodyParses(body) THEN ParsedData(body) ELSE NullVal,
     throws |-> BodyParses(body) /\ StampThrows(ParsedData(body)),
     stored |-> IF BodyParses(body) /\ ~StampThrows(ParsedData(body))
                THEN Stamped(ParsedData(body)) ELSE NullVal]

\* ------------------------------------------------------------ snapshot file
\* TERRITORY_FILE: exists, and its text (the empty text is a truncated file)
NoFile == [exists |-> FALSE, text |-> <<>>]
FileOf(t) == [exists |-> TRUE, text |-> t]
WriteOutcomes == {"ok", "fail", "truncated"}

\* line 1497: fs.writeFileSync either replaces the file, or throws before it
\* touched the file, or throws after it truncated the file
FileAfterWrite(file, v, wr) ==
    CASE wr = "ok" -> FileOf(JSONStringify(v))
      [] wr = "truncated" -> FileOf(<<>>)
      [] OTHER -> file

\* ------------------------------------------------------------ text summary
BaseRec(b) ==
    CASE b = "b1" -> [faction |-> "US", type |-> "FOB"]
      [] OTHER -> [faction |-> "USSR", type |-> "HQ"]

FactionKeys == <<"US", "USSR", "FIA", "Neutral">>

\* lines 572-573: the section a base is counted in
SectionOf(b) ==
    IF BaseRec(b).faction \in {"US", "USSR", "FIA", "Neutral"} THEN BaseRec(b).faction
    ELSE "Neutral"

\* lines 575-581 and 586: totalBases of one faction
TotalBases(bases, f) ==
    Cardinality({i \in 1..Len(bases) :
                    SectionOf(bases[i]) = f /\ BaseRec(bases[i]).type \in {"HQ", "FOB", "POI"}})

\* lines 623-627: the one field of the embed of a snapshot without bases
NoDataFields == {[name |-> "No Data", total |-> 0]}

\* lines 569-628: the fields of the embed, as the set of (section, count)
SummaryFields(v) ==
    IF HasBases(v)
    THEN {[name |-> FactionKeys[i], total |-> TotalBases(v.bases, FactionKeys[i])] :
            i \in {j \in 1..4 : TotalBases(v.bases, FactionKeys[j]) > 0}}
    ELSE NoDataFields

\* -------------------------------------------------------------------- state
VARIABLES
    territoryData,      \* the in-memory snapshot (lines 70-73)
    territoryFile,      \* CONFIG.TERRITORY_FILE on disk
    territoryMessageId, \* the display slot (line 76), 0 for null
    phase,              \* "boot", "syncing" (clientReady awaits the role sync),
                        \* "running" (timer set) or "noguild"
    guildPresent,       \* client.guilds.cache has CONFIG.GUILD_ID once ready
    channelPresent,     \* the guild has the territory channel
    pubs,               \* the updateTerritoryMap calls in flight (a bag of
                        \* activation records)
    live,               \* ids of the messages that exist on the channel
    lastMsg,            \* what the message sent last carries
    nextId,             \* the id the channel gives to the next message
    lastReq,            \* the last HTTP exchange of /api/territory
    accepted,           \* the snapshot of the last POST that answered success
    call,               \* one call of a function of bot.js taken on its own: the
                        \* function, its argument and, once it returned, its result
    warState,           \* the war state (lines 57-64)
    warFile,            \* CONFIG.WAR_FILE on disk
    playerData,         \* the player records (line 67), in the order their keys
                        \* were inserted
    memberRoles,        \* the names of the roles each guild member holds
    guildRoles,         \* the names of the roles that exist on the server
    interaction,        \* the slash command handled last and the reply it got
    commands            \* for each member, the slash command of theirs that is
                        \* being handled and awaits a call to Discord

\* the state the slash commands work on
commandVars == <<warState, warFile, playerData, memberRoles, guildRoles, interaction,
                 commands>>

vars == <<territoryData, territoryFile, territoryMessageId, phase, guildPresent,
          channelPresent, pubs, live, lastMsg, nextId, lastReq, accepted, call,
          warState, warFile, playerData, memberRoles, guildRoles, interaction, commands>>

territoryVars == <<territoryData, territoryFile, territoryMessageId, phase, guildPresent,
                   channelPresent, pubs, live, lastMsg, nextId, lastReq, accepted>>

\* lines 70-73: { bases: [], lastUpdate: null }
InitialData == JVal("object", <<>>, "null")

\* a snapshot file a previous run may have left
InitialFiles == {NoFile, FileOf(JSONStringify(JVal("object", <<"b1">>, "stamp"))), FileOf(<<>>)}

\* the texts the snapshot file can hold, and what JSON.parse makes of each
FileTexts ==
    {f.text : f \in InitialFiles}
    \cup {JSONStringify(Stamped(ParsedData(b))) : b \in {c \in Bodies : BodyParses(c)}}

ParsedFile == [t \in FileTexts |-> [ok |-> ParseOK(t), val |-> ParseVal(t)]]

\* lines 555-559 before warState was read
NoHeader == [active |-> FALSE, declaredBy |-> "none"]

\* one updateTerritoryMap call: where it awaits (pc), the snapshot its embed
\* was built from and the embed's fields, the description of the embed (war),
\* the snapshot handed to generateMapImage (arg), the attachment (image),
\* how the render went, the slot id it read (old) and how the cleanup went
IdlePub == [pc |-> "idle", src |-> NullVal, fields |-> {}, war |-> NoHeader,
            arg |-> NullVal, image |-> FALSE,
            render |-> "skipped", old |-> 0, cleanup |-> "none"]

NoReq == [op |-> "none", status |-> 0, seen |-> <<>>, trig |-> FALSE]

\* ------------------------------------------------------ roles and war state
\* lines 27-28
NATIONALITIES == <<"USSR", "US", "FIA">>
RANKS == <<"Private", "Sergeant", "Lieutenant", "Captain", "General", "Politician",
           "Head_of_State">>

NationalityNames == {NATIONALITIES[i] : i \in 1..Len(NATIONALITIES)}
RankNames == {RANKS[i] : i \in 1..Len(RANKS)}

\* lines 57-64: the war state at load; null is written "null"
InitialWarState ==
    [active |-> FALSE, declaredBy |-> "null", declaredAt |-> "null",
     declaredByNation |-> "null", targetNations |-> <<>>, participants |-> <<>>]

\* the members of the guild: three Heads of State, a General, a member
\* without any role, and a member who holds the roles Private and
\* Head_of_State together
Members == {"hosUS", "hosUSSR", "hosFIA", "general", "newcomer", "demoted"}

Cast ==
    [m \in Members |->
        CASE m = "hosUS" -> {"US", "Head_of_State"}
          [] m = "hosUSSR" -> {"USSR", "Head_of_State"}
          [] m = "hosFIA" -> {"FIA", "Head_of_State"}
          [] m = "general" -> {"US", "General"}
          [] m = "demoted" -> {"FIA", "Private", "Head_of_State"}
          [] OTHER -> {}]

NoWarFile == [exists |-> FALSE, state |-> InitialWarState]

NoInteraction == [cmd |-> "none", reply |-> "none"]

\* no command of the member is being handled
NoCommand == [pc |-> "idle"]

\* the state of the slash commands before any command
CommandsIdle ==
    /\ warState = InitialWarState
    /\ warFile = NoWarFile
    /\ playerData = <<>>
    /\ memberRoles = Cast
    /\ guildRoles = NationalityNames \cup RankNames
    /\ interaction = NoInteraction
    /\ commands = [m \in Members |-> NoCommand]

\* no function is being followed on its own
NoCall == [fn |-> "none", done |-> FALSE]

InFlightPubs == BagToSet(pubs)
Quiet == pubs = EmptyBag
CanStart == BagCardinality(pubs) < MaxInFlight
AtPc(bag, pc) == BagCardinality([r \in {q \in BagToSet(bag) : q.pc = pc} |-> bag[r]])

Init ==
    /\ territoryData = InitialData
    /\ territoryFile \in InitialFiles
    /\ territoryMessageId = 0
    /\ phase = "boot"
    /\ guildPresent \in BOOLEAN
    /\ channelPresent \in BOOLEAN
    /\ pubs = EmptyBag
    /\ live = {}
    /\ lastMsg = IdlePub
    /\ nextId = 1
    /\ lastReq = NoReq
    /\ accepted = [any |-> FALSE, bases |-> <<>>]
    /\ call = NoCall
    /\ CommandsIdle

\* ----------------------------------------------------------------- convexHull
Pt(px, py) == [x |-> px, y |-> py]

\* lines 236-239: the comparator of the sort (negative: a before b)
Compare(a, b) == IF a.x = b.x THEN a.y - b.y ELSE a.x - b.x

\* Array.prototype.sort is stable: a point goes behind the points that do not
\* compare greater
RECURSIVE Insert(_, _)
Insert(p, s) ==
    IF Len(s) = 0 THEN <<p>>
    ELSE IF Compare(p, Head(s)) < 0 THEN <<p>> \o s
    ELSE <<Head(s)>> \o Insert(p, Tail(s))

\* lines 236-239: points.slice().sort(...)
RECURSIVE Sorted(_)
Sorted(points) ==
    IF Len(points) = 0 THEN <<>>
    ELSE Insert(points[Len(points)], Sorted(SubSeq(points, 1, Len(points) - 1)))

\* lines 242-244: cross
Cross(o, a, b) == (a.x - o.x) * (b.y - o.y) - (a.y - o.y) * (b.x - o.x)

\* a pop rule that keeps the points lying on an edge
Pops_Strict(c) == c < 0

\* lines 249 and 259: the turn that makes the scan pop the last point
Pops(c) == c <= 0

\* Array.prototype.pop (an empty array stays empty)
Pop(s) == SubSeq(s, 1, Len(s) - 1)

\* lines 249-251 and 259-261: the while loop
RECURSIVE PopWhile(_, _)
PopWhile(stack, point) ==
    IF Len(stack) >= 2 /\ Pops(Cross(stack[Len(stack) - 1], stack[Len(stack)], point))
    THEN PopWhile(Pop(stack), point)
    ELSE stack

\* lines 247-253 and 256-263: one half of the hull, over the points in the
\* order they are visited
RECURSIVE Scan(_, _)
Scan(stack, rest) ==
    IF Len(rest) = 0 THEN stack
    ELSE Scan(Append(PopWhile(stack, Head(rest)), Head(rest)), Tail(rest))

Reverse(s) == [i \in 1..Len(s) |-> s[Len(s) + 1 - i]]

\* lines 235-269: the two scans and the concatenation
HullScan(points) ==
    LET sorted == Sorted(points) IN
    Pop(Scan(<<>>, sorted)) \o Pop(Scan(<<>>, Reverse(sorted)))

\* a sort that is done on the array passed in
ArgumentAfter_SortedInPlace(points) == IF Len(points) < 3 THEN points ELSE Sorted(points)

\* lines 233 and 236: the array passed in, once convexHull returned: it is
\* returned as it is, or copied by slice() before the sort
ArgumentAfter(points) == points

\* a hull that has no shortcut for small inputs
ConvexHull_NoShortcut(points) == HullScan(points)

\* lines 232-270: convexHull
ConvexHull(points) == IF Len(points) < 3 THEN points ELSE HullScan(points)

\* ------------------------------------------------------------ generateMapImage
\* A coordinate of a base: a number of whole world units, or missing.
At(v) == [present |-> TRUE, v |-> v]
Missing == [present |-> FALSE, v |-> 0]

\* A base of the snapshot handed to the renderer: faction and type are texts
\* ("absent" for a missing property), x and z are coordinates.
Base(f, t, bx, bz) == [faction |-> f, type |-> t, x |-> bx, z |-> bz]

RECURSIVE GCD(_, _)
GCD(a, b) == IF b = 0 THEN a ELSE GCD(b, a % b)

\* line 293: SCALE = CANVAS_SIZE / MAP_SIZE, as a fraction in lowest terms.
\* Its denominator is a power of two, so that x * SCALE is exact for whole x;
\* canvas coordinates are held in units of 1/SCALE.den pixel.
SCALE ==
    [num |-> CANVAS_SIZE \div GCD(CANVAS_SIZE, MAP_SIZE),
     den |-> MAP_SIZE \div GCD(CANVAS_SIZE, MAP_SIZE)]

\* line 357: base.x * SCALE
CanvasX(bx) == bx * SCALE.num

\* a vertical axis that is not flipped
CanvasY_NotFlipped(bz) == bz * SCALE.num

\* line 358: (MAP_SIZE - base.z) * SCALE
CanvasY(bz) == (MAP_SIZE - bz) * SCALE.num

\* !base.x is true for a missing coordinate and for the coordinate 0
Truthy(c) == c.present /\ c.v # 0

\* line 354: if (!base.x || !base.z) continue
Placed(base) == Truthy(base.x) /\ Truthy(base.z)

\* lines 345-349: the keys of factionBases, in order
Playable == <<"US", "USSR", "FIA">>

\* a name every object inherits from Object.prototype: factionBases[name] is
\* truthy, and it is no array
InheritedKeys == {"constructor"}

\* a filter that lets the HQs through
HullEligible_WithHQ(base) ==
    /\ base.faction # "Neutral"
    /\ base.faction \in ({Playable[i] : i \in 1..3} \cup InheritedKeys)

\* line 366: base.faction !== 'Neutral' && base.type !== 'HQ' &&
\* factionBases[base.faction]
HullEligible(base) ==
    /\ base.faction # "Neutral"
    /\ base.type # "HQ"
    /\ base.faction \in ({Playable[i] : i \in 1..3} \cup InheritedKeys)

NoPoints == [f \in {Playable[i] : i \in 1..3} |-> <<>>]

\* lines 351-374: the loop over the bases from base i on.  positions is
\* basePositions (ix: the place of the base in the snapshot), factionBases
\* the hull points of each faction, sources the places of the bases the
\* points come from; threw says that line 367 threw a TypeError.
RECURSIVE Collect(_, _, _)
Collect(bases, i, acc) ==
    IF i > Len(bases) THEN acc
    ELSE IF ~Placed(bases[i]) THEN Collect(bases, i + 1, acc)
    ELSE LET base == bases[i]
             x == CanvasX(base.x.v)
             y == CanvasY(base.z.v)
             pushed == [acc EXCEPT !.positions =
                            Append(@, [ix |-> i, base |-> base, canvasX |-> x, canvasY |-> y])]
         IN IF ~HullEligible(base) THEN Collect(bases, i + 1, pushed)
            ELSE IF base.faction \in InheritedKeys THEN [pushed EXCEPT !.threw = TRUE]
            ELSE Collect(bases, i + 1,
                         [pushed EXCEPT !.factionBases[base.faction] = Append(@, Pt(x, y)),
                                        !.sources[base.faction] = Append(@, i)])

\* lines 337-339: borderColor of a faction
BorderColor(f) ==
    CASE f = "US" -> "#2980b9"
      [] f = "USSR" -> "#c0392b"
      [] OTHER -> "#27ae60"

\* a border loop that is content with two points
StrokesBorder_TwoPoints(points) == Len(points) >= 2

\* lines 378-381: the faction gets a border
StrokesBorder(points) == Len(points) >= 3 /\ Len(ConvexHull(points)) >= 3

\* lines 377-401: the borders stroked, each with its colour and its path
Borders(fb) ==
    {[faction |-> Playable[i], colour |-> BorderColor(Playable[i]),
      path |-> ConvexHull(fb[Playable[i]])] :
        i \in {j \in 1..3 : StrokesBorder(fb[Playable[j]])}}

\* lines 344-401: what generateMapImage draws for a snapshot, or that it threw
GenerateMapImage(bases) ==
    LET c == Collect(bases, 1, [positions |-> <<>>, factionBases |-> NoPoints,
                                sources |-> NoPoints, threw |-> FALSE])
    IN c @@ [borders |-> IF c.threw THEN {} ELSE Borders(c.factionBases)]

\* ------------------------------------- the background of generateMapImage
\* lines 318-499: the rest of generateMapImage, run once the background is
\* on the canvas: the call returns the image, or rejects when drawing the
\* bases threw
Finish(c, bg) ==
    LET drawn == GenerateMapImage(c.arg)
    IN [c EXCEPT !.pc = "settled", !.done = TRUE, !.bg = bg, !.ret = drawn,
                 !.image = ~drawn.threw]

\* lines 298-315, up to the await: without the file the flat fill is drawn
\* and the function runs on; with the file loadImage is awaited
StartBackground(c) ==
    IF c.file THEN [c EXCEPT !.pc = "loading"] ELSE Finish(c, "fill")

\* a load failure that is not caught: the call rejects with it
AfterLoadImage_Propagates(c, outcome) ==
    IF outcome = "loaded" THEN Finish([c EXCEPT !.load = outcome], "image")
    ELSE [c EXCEPT !.pc = "settled", !.done = TRUE, !.load = outcome,
                   !.ret = [threw |-> TRUE]]

\* lines 303-310: the continuation after loadImage settled.  outcome is
\* "loaded" (the image is drawn), "loadFailed" (loadImage rejected) or
\* "drawFailed" (drawImage threw); the catch draws the flat fill.
AfterLoadImage(c, outcome) ==
    Finish([c EXCEPT !.load = outcome], IF outcome = "loaded" THEN "image" ELSE "fill")

\* --------------------------------------- the summary of updateTerritoryMap
\* line 572: base.faction || 'Neutral'
FactionOrNeutral(base) == IF base.faction \in {"absent", ""} THEN "Neutral" ELSE base.faction

\* a lookup that has no group for a faction it does not know
FactionDataKey_NoFallback(base) ==
    IF FactionOrNeutral(base) \in {FactionKeys[i] : i \in 1..4} \cup InheritedKeys
    THEN FactionOrNeutral(base)
    ELSE "none"

\* line 573: factionBases[faction] || factionBases['Neutral'], as the key of
\* the group found.  For a name every object inherits the lookup finds a
\* value that is no group.
FactionDataKey(base) ==
    IF FactionOrNeutral(base) \in {FactionKeys[i] : i \in 1..4} \cup InheritedKeys
    THEN FactionOrNeutral(base)
    ELSE "Neutral"

\* lines 575-581: the sub-list a base is pushed on, "none" when no branch of
\* the if matches its type
SubList(base) ==
    CASE base.type = "HQ" -> "hq"
      [] base.type = "FOB" -> "fobs"
      [] base.type = "POI" -> "pois"
      [] OTHER -> "none"

NoGroups == [f \in {FactionKeys[i] : i \in 1..4} |-> [hq |-> <<>>, fobs |-> <<>>, pois |-> <<>>]]

\* lines 571-582: the loop over the bases from base i on.  groups holds, for
\* each faction and sub-list, the places of the bases pushed; threw says
\* that a push threw a TypeError (the group found has no such list).
RECURSIVE Categorize(_, _, _)
Categorize(bases, i, acc) ==
    IF i > Len(bases) THEN acc
    ELSE LET key == FactionDataKey(bases[i])
             list == SubList(bases[i])
         IN IF list = "none" \/ key \notin DOMAIN acc.groups
            THEN IF list # "none" /\ key \in InheritedKeys
                 THEN [acc EXCEPT !.threw = TRUE]
                 ELSE Categorize(bases, i + 1, acc)
            ELSE Categorize(bases, i + 1,
                            [acc EXCEPT !.groups[key][list] = Append(@, i)])

\* lines 586-620: the field of one faction: its key, the count of its header
\* and the counts of its sub-lists
FactionField(key, data) ==
    [section |-> key, total |-> Len(data.hq) + Len(data.fobs) + Len(data.pois),
     hq |-> Len(data.hq), fobs |-> Len(data.fobs), pois |-> Len(data.pois)]

\* lines 585-621: the fields added, in the order of the factions
RECURSIVE FactionFields(_, _)
FactionFields(groups, k) ==
    IF k > Len(FactionKeys) THEN <<>>
    ELSE LET field == FactionField(FactionKeys[k], groups[FactionKeys[k]])
         IN (IF field.total = 0 THEN <<>> ELSE <<field>>) \o FactionFields(groups, k + 1)

\* lines 623-627: the placeholder field
NoDataField == [section |-> "No Data", total |-> 0, hq |-> 0, fobs |-> 0, pois |-> 0]

\* lines 561-628: the fields of the embed built for a list of bases, or that
\* building them threw
BuildSummary(bases) ==
    IF Len(bases) > 0
    THEN LET c == Categorize(bases, 1, [groups |-> NoGroups, threw |-> FALSE])
         IN [threw |-> c.threw,
             fields |-> IF c.threw THEN <<>> ELSE FactionFields(c.groups, 1)]
    ELSE [threw |-> FALSE, fields |-> <<NoDataField>>]

\* ---------------------------------- the try blocks of updateTerritoryMap
\* the try statements without the one around the whole body
TryBlocks_InnerOnly ==
    {[try |-> 640, catch |-> 644, end |-> 646],
     [try |-> 655, catch |-> 669, end |-> 671],
     [try |-> 658, catch |-> 661, end |-> 663]}

\* lines 534-675: the try statements of updateTerritoryMap: the line of the
\* try, of its catch and of the end of the catch clause
TryBlocks ==
    {[try |-> 534, catch |-> 673, end |-> 675],
     [try |-> 640, catch |-> 644, end |-> 646],
     [try |-> 655, catch |-> 669, end |-> 671],
     [try |-> 658, catch |-> 661, end |-> 663]}

NoBlock == [try |-> 0, catch |-> 0, end |-> 0]

\* the innermost try statement whose block holds the line, NoBlock when the
\* line is in none
Handler(line) ==
    LET around == {b \in TryBlocks : b.try < line /\ line < b.catch}
    IN IF around = {} THEN NoBlock
       ELSE CHOOSE b \in around : \A c \in around : c.try <= b.try

\* the statements of updateTerritoryMap that can throw or reject, in the
\* order they run: the channel lookup, the reload, the loop over the bases,
\* the render, the fetch, the delete and the send
ThrowLines == <<536, 545, 569, 641, 659, 660, 667>>

\* the statement that runs next after the line
StepAfter(line) ==
    IF \E q \in 1..Len(ThrowLines) : ThrowLines[q] > line
    THEN CHOOSE q \in 1..Len(ThrowLines) :
            ThrowLines[q] > line /\ \A r \in 1..(q - 1) : ThrowLines[r] <= line
    ELSE Len(ThrowLines) + 1

\* whether statement p runs in the scenario sc (lines 639 and 656), and
\* whether it throws or rejects: the file is corrupt (545), the snapshot is
\* null or a base makes the loop throw (569-581), the render, the fetch,
\* the delete or the send rejects
StepRuns(sc, p) ==
    CASE p = 4 -> sc.file # "null" /\ Len(sc.bases) > 0
      [] p \in {5, 6} -> sc.slot
      [] OTHER -> TRUE

StepThrows(sc, p) ==
    CASE p = 2 -> sc.file = "corrupt"
      [] p = 3 -> sc.file = "null" \/ BuildSummary(sc.bases).threw
      [] p = 4 -> ~sc.render
      [] p = 5 -> ~sc.fetch
      [] p = 6 -> ~sc.delete
      [] p = 7 -> ~sc.send
      [] OTHER -> FALSE

\* lines 533-676: one call of updateTerritoryMap from statement p on.  A
\* throw goes to the catch of the innermost try around it and the call
\* runs on behind that catch clause; without a try around it the promise
\* of the call rejects.
RECURSIVE UpdateRun(_, _, _)
UpdateRun(sc, p, acc) ==
    IF p > Len(ThrowLines) THEN [acc EXCEPT !.settled = "resolved"]
    ELSE IF p = 1 /\ ~sc.chan THEN [acc EXCEPT !.settled = "resolved", !.returned = 540]
    ELSE IF ~StepRuns(sc, p) THEN UpdateRun(sc, p + 1, acc)
    ELSE IF StepThrows(sc, p)
         THEN LET h == Handler(ThrowLines[p])
              IN IF h = NoBlock THEN [acc EXCEPT !.settled = "rejected"]
                 ELSE UpdateRun(sc, StepAfter(h.end), [acc EXCEPT !.caught = @ \cup {h.catch}])
    ELSE UpdateRun(sc, p + 1, [acc EXCEPT !.image = @ \/ p = 4, !.sent = @ \/ p = 7])

UpdateTerritoryMapRun(sc) ==
    UpdateRun(sc, 1, [settled |-> "pending", returned |-> 0, caught |-> {},
                      image |-> FALSE, sent |-> FALSE])

\* ------------------------------------------------------- updateTerritoryMap
\* lines 655-667, up to the first await: with a slot id the old message is
\* fetched, without one the new message is sent at once
ReplaceSlot(pub, tmid) ==
    IF tmid # 0 THEN [pub EXCEPT !.pc = "fetch", !.old = tmid]
    ELSE [pub EXCEPT !.pc = "send"]

\* lines 544-546: FALSE when reading the file back throws
ReloadOK(file) == file.exists => ParsedFile[file.text].ok

\* lines 544-546: territoryData after the reload
Reloaded(td, file) == IF file.exists THEN ParsedFile[file.text].val ELSE td

\* line 569: reading .bases of null throws
BasesReadThrows(v) == v.kind = "null"

\* lines 555-559: the description of the embed, from warState
WarHeader(ws) ==
    IF ws.active
    THEN [active |-> TRUE,
          declaredBy |-> IF ws.declaredBy = "null" THEN "Unknown" ELSE ws.declaredBy]
    ELSE [active |-> FALSE, declaredBy |-> "none"]

\* a renderer that is handed what the variable territoryData held when the
\* call began
RenderArgument_Global(pub) == territoryData

\* line 641: territoryData.bases is read when generateMapImage is called, in
\* the run that built the embed
RenderArgument(pub) == pub.src

\* an empty snapshot that is sent at once, the slot not looked at
RenderOrReplace_SendsAtOnce(pub, tmid) ==
    IF HasBases(pub.src) THEN [pub EXCEPT !.pc = "render", !.arg = RenderArgument(pub)]
    ELSE [pub EXCEPT !.pc = "send"]

\* lines 637-647, up to the await: the renderer is called for a snapshot
\* with bases
RenderOrReplace(pub, tmid) ==
    IF HasBases(pub.src) THEN [pub EXCEPT !.pc = "render", !.arg = RenderArgument(pub)]
    ELSE ReplaceSlot(pub, tmid)

\* lines 533-653, up to the first await: the publish record, the new value
\* of territoryData and how the call went ("noChannel": returned at line
\* 540; "caught": threw into the catch of line 673; "started": awaiting)
UpdatePrefix(td, file, tmid, chan) ==
    IF ~chan THEN [pub |-> IdlePub, data |-> td, outcome |-> "noChannel"]
    ELSE IF ~ReloadOK(file) THEN [pub |-> IdlePub, data |-> td, outcome |-> "caught"]
    ELSE LET d == Reloaded(td, file) IN
         IF BasesReadThrows(d) THEN [pub |-> IdlePub, data |-> d, outcome |-> "caught"]
         ELSE [pub |-> RenderOrReplace([IdlePub EXCEPT !.src = d,
                                                       !.fields = SummaryFields(d),
                                                       !.war = WarHeader(warState)], tmid),
               data |-> d, outcome |-> "started"]

\* a render failure that is not caught and abandons the publish
AfterRender_Abort(pub, ok, tmid) ==
    IF ok THEN ReplaceSlot([pub EXCEPT !.image = TRUE, !.render = "ok"], tmid)
    ELSE [pub EXCEPT !.pc = "abandoned", !.render = "failed"]

\* lines 641-647: the continuation after generateMapImage settled
AfterRender(pub, ok, tmid) ==
    ReplaceSlot([pub EXCEPT !.image = ok, !.render = IF ok THEN "ok" ELSE "failed"], tmid)

\* a fetch failure that is not caught by the inner try and abandons the send
AfterFetch_GiveUp(pub, ok) ==
    IF ok THEN [pub EXCEPT !.pc = "delete"]
    ELSE [pub EXCEPT !.pc = "abandoned", !.cleanup = "fetchFailed"]

\* lines 659-663: the continuation after channel.messages.fetch settled
AfterFetch(pub, ok) ==
    IF ok THEN [pub EXCEPT !.pc = "delete"]
    ELSE [pub EXCEPT !.pc = "send", !.cleanup = "fetchFailed"]

\* lines 660-667: the continuation after oldMessage.delete settled
AfterDelete(pub, ok) ==
    [pub EXCEPT !.pc = "send", !.cleanup = IF ok THEN "deleted" ELSE "deleteFailed"]

\* a cleanup that clears the channel instead of deleting the one old message
ChannelAfterDelete_Purge(msgSet, old) == {}

\* line 660: the messages left on the channel by a delete that succeeded
ChannelAfterDelete(msgSet, old) == msgSet \ {old}

\* a slot that is only filled while it is empty
SlotAfterSend_KeepFirst(tmid, id) == IF tmid = 0 THEN id ELSE tmid

\* line 668: territoryMessageId = message.id
SlotAfterSend(tmid, id) == id

\* a rejected send that is not caught: the rejection of updateTerritoryMap is
\* unhandled and ends the process, and its timer with it
ProcessAfterSendRejects_Unhandled(ph) == "crashed"

\* lines 669-671: the catch logs the error, the call returns, and the process
\* runs on in the phase it was in, its timer set
ProcessAfterSendRejects(ph) == ph

\* a call that reached its first await joins the calls in flight
Started(r) ==
    pubs' = IF r.outcome = "started" THEN pubs (+) SetToBag({r.pub}) ELSE pubs

\* one call in flight moves on, or ends
Moved(pub, new) == pubs' = (pubs (-) SetToBag({pub})) (+) SetToBag({new})
Ended(pub) == pubs' = pubs (-) SetToBag({pub})

\* ------------------------------------------------------------ slash commands
\* Array.prototype.find over an ordered list of role names: the first name
\* of the list that the member holds, or the default
FirstHeld(names, roles, default) ==
    IF \E i \in 1..Len(names) : names[i] \in roles
    THEN names[CHOOSE i \in 1..Len(names) :
                  names[i] \in roles /\ \A j \in 1..(i - 1) : names[j] \notin roles]
    ELSE default

\* lines 116-126: getPlayerDataFromMember
GetPlayerDataFromMember(roles) ==
    [nationality |-> FirstHeld(NATIONALITIES, roles, "USSR"),
     rank |-> FirstHeld(RANKS, roles, "Private")]

\* a check that is content with the role Head_of_State among the roles held
IsHeadOfState_AnyRole(roles) == "Head_of_State" \in roles

\* lines 1113-1115 and 1197-1199: data.rank !== 'Head_of_State'
IsHeadOfState(roles) == GetPlayerDataFromMember(roles).rank = "Head_of_State"

\* the options target1, target2, target3 of a command, an option left out
\* reading null: target1 alone, target1 and target2, the three nations in
\* any order, and one nation three times
Selections ==
    {<<t1, "null", "null">> : t1 \in NationalityNames}
    \cup {<<t1, t2, "null">> : t1 \in NationalityNames, t2 \in NationalityNames}
    \cup {sel \in [1..3 -> NationalityNames] :
            \/ sel[1] = sel[2] /\ sel[2] = sel[3]
            \/ sel[1] # sel[2] /\ sel[2] # sel[3] /\ sel[1] # sel[3]}

\* [target1, target2, target3].filter(t => t !== null)
NotNull(sel) == LET keep(t) == t # "null" IN SelectSeq(sel, keep)

\* [...new Set(list)]: each value once, at the place of its first occurrence
RECURSIVE Unique(_)
Unique(list) ==
    IF Len(list) = 0 THEN <<>>
    ELSE LET front == Unique(SubSeq(list, 1, Len(list) - 1))
             last == list[Len(list)]
         IN IF \E i \in 1..Len(front) : front[i] = last THEN front ELSE Append(front, last)

Includes(list, x) == \E i \in 1..Len(list) : list[i] = x

\* list.filter(t => t !== x)
Without(list, x) == LET keep(t) == t # x IN SelectSeq(list, keep)

\* list.filter(t => other.includes(t)) and list.filter(t => !other.includes(t))
Within(list, other) == LET keep(t) == Includes(other, t) IN SelectSeq(list, keep)
Outside(list, other) == LET keep(t) == ~Includes(other, t) IN SelectSeq(list, keep)

\* the outcome of a command: the war state it leaves, whether it called
\* saveData, and its reply
Outcome(ws, saved, reply) == [war |-> ws, saved |-> saved, reply |-> reply]

\* a target list that keeps the nation of the member who declares
OwnNationRemoved_Kept(list, nationality) == list

\* line 1130: targetNations.filter(t => t !== data.nationality)
OwnNationRemoved(list, nationality) == Without(list, nationality)

\* an expansion that starts the war anew in the name of the member
Expanded_Redeclared(ws, newTargets, name, now, nationality) ==
    [ws EXCEPT !.declaredBy = name, !.declaredAt = now, !.declaredByNation = nationality,
               !.targetNations = @ \o newTargets, !.participants = @ \o newTargets]

\* lines 1152-1153: the new targets are pushed on both lists
Expanded(ws, newTargets, name, now, nationality) ==
    [ws EXCEPT !.targetNations = @ \o newTargets, !.participants = @ \o newTargets]

\* lines 1113-1192: declarewar by a member with the given roles, options sel
\* and the time now
DeclareWarOutcome(ws, name, roles, sel, now) ==
    LET data == GetPlayerDataFromMember(roles)
        targetNations == OwnNationRemoved(Unique(NotNull(sel)), data.nationality)
        newTargets == Outside(targetNations, ws.targetNations)
    IN IF ~IsHeadOfState(roles) THEN Outcome(ws, FALSE, "onlyHeadsOfState")
       ELSE IF Len(targetNations) = 0 THEN Outcome(ws, FALSE, "ownNation")
       ELSE IF ws.active
            THEN IF Len(newTargets) = 0 THEN Outcome(ws, FALSE, "alreadyAtWar")
                 ELSE Outcome(Expanded(ws, newTargets, name, now, data.nationality),
                              TRUE, "warExpanded")
            ELSE Outcome([active |-> TRUE, declaredBy |-> name, declaredAt |-> now,
                          declaredByNation |-> data.nationality,
                          targetNations |-> targetNations,
                          participants |-> <<data.nationality>> \o targetNations],
                         TRUE, "warDeclared")

\* a peace that ends the war and keeps the name of who declared it
AfterPeace_KeepsDeclarer(ws) ==
    IF Len(ws.targetNations) = 0
    THEN [ws EXCEPT !.active = FALSE, !.declaredAt = "null", !.participants = <<>>]
    ELSE ws

\* a peace that leaves the war active when its last target is gone
AfterPeace_StaysActive(ws) == ws

\* lines 1244-1250: without a target left the war ends
AfterPeace(ws) ==
    IF Len(ws.targetNations) = 0
    THEN [ws EXCEPT !.active = FALSE, !.declaredBy = "null", !.declaredAt = "null",
                    !.declaredByNation = "null", !.participants = <<>>]
    ELSE ws

\* lines 1197-1269: declarepeace by a member with the given roles and
\* options sel
DeclarePeaceOutcome(ws, roles, sel) ==
    LET peaceTargets == Unique(NotNull(sel))
        atWarWith(t) == Includes(ws.targetNations, t) \/ ws.declaredByNation = t
        notAtWarWith(t) == ~atWarWith(t)
        invalidTargets == SelectSeq(peaceTargets, notAtWarWith)
        validPeaceTargets == SelectSeq(peaceTargets, atWarWith)
        stays(p) == ~Includes(validPeaceTargets, p) \/ p = ws.declaredByNation
        removed == [ws EXCEPT !.targetNations = Outside(@, validPeaceTargets),
                              !.participants = SelectSeq(@, stays)]
    IN IF ~IsHeadOfState(roles) THEN Outcome(ws, FALSE, "onlyHeadsOfState")
       ELSE IF ~ws.active THEN Outcome(ws, FALSE, "noActiveWar")
       ELSE IF Len(invalidTargets) > 0 THEN Outcome(ws, FALSE, "notAtWarWith")
       ELSE IF Len(validPeaceTargets) = 0 THEN Outcome(ws, FALSE, "noTarget")
       ELSE Outcome(AfterPeace(removed), TRUE,
                    IF Len(removed.targetNations) = 0 THEN "peace" ELSE "partialPeace")

\* lines 96-113: saveData writes the war state (and the player records)
WarFileAfter(file, o) == IF o.saved THEN [exists |-> TRUE, state |-> o.war] ELSE file

\* the names bot.js declares at its top level, and the parameters and
\* constants in scope at line 1108
NamesInScope ==
    {"CONFIG", "NATIONALITIES", "RANKS", "NATIONALITY_CHANNELS", "warState", "playerData",
     "territoryData", "territoryMessageId", "client", "commands", "rest", "app",
     "interaction", "commandName", "member", "identityId", "data"}

\* line 1108: the names the template literal of the reply reads
LinkReplyNames == {"identityId", "data", "s_mNationalityToFaction"}

\* lines 1108 and 1379-1382: reading a name that is not declared throws a
\* ReferenceError while the reply text is built; the catch of the handler
\* answers with the generic error text
LinkReply == IF LinkReplyNames \subseteq NamesInScope THEN "linked" ELSE "errorOccurred"

\* the place of the record of member m in playerData, 0 without one
PlaceOf(pd, m) ==
    IF \E i \in 1..Len(pd) : pd[i].discordId = m
    THEN CHOOSE i \in 1..Len(pd) : pd[i].discordId = m
    ELSE 0

\* lines 1097-1104: the record of member m is created if there is none, and
\* gets the identity id and the nationality and rank of the member's roles
Linked(pd, m, roles, id) ==
    LET data == GetPlayerDataFromMember(roles)
        rec == [discordId |-> m, steamId |-> id, nationality |-> data.nationality,
                rank |-> data.rank]
    IN IF PlaceOf(pd, m) = 0 THEN Append(pd, rec) ELSE [pd EXCEPT ![PlaceOf(pd, m)] = rec]

\* lines 1402-1457: GET /api/player/:identifier.  The first record whose
\* steamId is the identifier is found; fresh says that the guild and the
\* member were fetched, and then nationality and rank are read from the
\* member's roles.
PlayerResponse(pd, roles, id, fresh) ==
    IF \E i \in 1..Len(pd) : pd[i].steamId = id
    THEN LET entry == pd[CHOOSE i \in 1..Len(pd) :
                            pd[i].steamId = id /\ \A j \in 1..(i - 1) : pd[j].steamId # id]
             data == GetPlayerDataFromMember(roles[entry.discordId])
         IN [status |-> 200,
             body |-> IF fresh
                      THEN [entry EXCEPT !.nationality = data.nationality, !.rank = data.rank]
                      ELSE entry]
    ELSE [status |-> 404, body |-> [discordId |-> "none", steamId |-> id,
                                    nationality |-> "none", rank |-> "none"]]

\* one turn of the loop that puts the chosen role on the member and leaves
\* the roles of the other nationalities alone
NationalityTurn_KeepsOthers(roles, guild, nat, nationality) ==
    IF nat = nationality
    THEN [roles |-> roles \cup {nat}, guild |-> guild \cup {nat}, added |-> TRUE]
    ELSE [roles |-> roles, guild |-> guild, added |-> FALSE]

\* lines 1015-1041: one turn of the loop over NATIONALITIES, for the
\* nationality nat.  A role of that name that exists is added to the member
\* when it is the chosen one and removed otherwise; the chosen role is
\* created first when the server lacks it.  roles are the member's roles,
\* guild the roles of the server; added says that roleAdded was set.
NationalityTurn(roles, guild, nat, nationality) ==
    IF nat \in guild
    THEN IF nat = nationality
         THEN [roles |-> roles \cup {nat}, guild |-> guild, added |-> TRUE]
         ELSE [roles |-> roles \ {nat}, guild |-> guild, added |-> FALSE]
    ELSE IF nat = nationality
         THEN [roles |-> roles \cup {nat}, guild |-> guild \cup {nat}, added |-> TRUE]
         ELSE [roles |-> roles, guild |-> guild, added |-> FALSE]

\* lines 1044-1069: a member whose roles hold no rank gets the role Private,
\* which is created first when the server lacks it
RankTurn(roles, guild) ==
    IF GetPlayerDataFromMember(roles).rank = "Private" /\ roles \cap RankNames = {}
    THEN [roles |-> roles \cup {"Private"}, guild |-> guild \cup {"Private"},
          assigned |-> TRUE]
    ELSE [roles |-> roles, guild |-> guild, assigned |-> FALSE]

\* lines 1072-1076: the record of member m is created if there is none and
\* gets the chosen nationality and the rank read from the roles; a record
\* made here has no steamId
Chosen(pd, m, nationality, rank) ==
    IF PlaceOf(pd, m) = 0
    THEN Append(pd, [discordId |-> m, steamId |-> "undefined",
                     nationality |-> nationality, rank |-> rank])
    ELSE [pd EXCEPT ![PlaceOf(pd, m)].nationality = nationality,
                    ![PlaceOf(pd, m)].rank = rank]

\* the members of the guild in the order guild.members.fetch() yields them
MemberOrder == <<"hosUS", "hosUSSR", "hosFIA", "general", "newcomer", "demoted">>

\* a sync that writes every record anew
SteamIdKept_Dropped(pd, m) == "null"

\* line 222: playerData[member.id]?.steamId || null
SteamIdKept(pd, m) ==
    IF PlaceOf(pd, m) = 0 \/ pd[PlaceOf(pd, m)].steamId \in {"undefined", "null", ""}
    THEN "null"
    ELSE pd[PlaceOf(pd, m)].steamId

\* lines 213-224: the loop of syncAllPlayers from member k on: the record of
\* each member is written anew from the member's roles
RECURSIVE Synced(_, _, _)
Synced(pd, roles, k) ==
    IF k > Len(MemberOrder) THEN pd
    ELSE LET m == MemberOrder[k]
             data == GetPlayerDataFromMember(roles[m])
             rec == [discordId |-> m, steamId |-> SteamIdKept(pd, m),
                     nationality |-> data.nationality, rank |-> data.rank]
         IN Synced(IF PlaceOf(pd, m) = 0 THEN Append(pd, rec)
                   ELSE [pd EXCEPT ![PlaceOf(pd, m)] = rec], roles, k + 1)

\* lines 912-939 and 963-990: the loop over the role names of one kind: each
\* role of the server is removed from the member but the chosen one, which
\* is added, and created first when the server lacks it
RolesSet(roles, guild, names, chosen) ==
    [roles |-> (roles \ (names \cap guild)) \cup {chosen}, guild |-> guild \cup {chosen}]

\* the commands that are being handled
InProgress == {m \in Members : commands[m].pc # "idle"}

\* ------------------------------------------------------------------ actions
\* lines 686-688: clientReady runs loadData, then awaits the role sync
ClientReady ==
    /\ phase = "boot"
    /\ territoryData' = IF territoryFile.exists /\ ParsedFile[territoryFile.text].ok
                        THEN ParsedFile[territoryFile.text].val ELSE territoryData
    /\ phase' = IF guildPresent THEN "syncing" ELSE "noguild"
    /\ UNCHANGED <<territoryFile, territoryMessageId, guildPresent, channelPresent, pubs,
                   live, lastMsg, nextId, lastReq, accepted, call, commandVars>>

\* lines 707-710: the initial updateTerritoryMap and setInterval
StartTerritoryUpdates ==
    /\ phase = "syncing"
    /\ CanStart
    /\ LET r == UpdatePrefix(territoryData, territoryFile, territoryMessageId,
                             channelPresent) IN
        /\ Started(r)
        /\ territoryData' = r.data
    /\ phase' = "running"
    /\ UNCHANGED <<territoryFile, territoryMessageId, guildPresent, channelPresent,
                   live, lastMsg, nextId, lastReq, accepted, call, commandVars>>

\* line 710: one firing of the interval timer
TimerTick ==
    /\ phase = "running"
    /\ CanStart
    /\ LET r == UpdatePrefix(territoryData, territoryFile, territoryMessageId,
                             channelPresent) IN
        /\ Started(r)
        /\ territoryData' = r.data
    /\ UNCHANGED <<territoryFile, territoryMessageId, phase, guildPresent, channelPresent,
                   live, lastMsg, nextId, lastReq, accepted, call, commandVars>>

\* a handler that awaits the publish and reports its failure
PostStatus_AwaitsPublish(written, outcome) ==
    IF written /\ outcome \notin {"noChannel", "caught"} THEN 200 ELSE 500

\* lines 1493-1509: the status the handler answers with, where written says
\* that lines 1493-1497 ran without throwing and outcome is how the
\* updateTerritoryMap call of line 1503 went ("none" when it was not made)
PostStatus(written, outcome) == IF written THEN 200 ELSE 500

\* lines 1472-1494 for each body: whether JSON.parse returned, parsedData,
\* and whether stamping it threw
Ingested ==
    [b \in Bodies |-> [parsed |-> BodyParses(b), val |-> ParsedData(b),
                       throws |-> BodyParses(b) /\ StampThrows(ParsedData(b))]]

\* lines 1469-1511: POST /api/territory with request body body, where the
\* file write (when the handler gets to it) ends as wr
PostTerritory(body, wr) ==
    LET parsed == Ingested[body].parsed
        throws == Ingested[body].throws
        assigned == IF ~parsed THEN territoryData
                    ELSE IF throws THEN Ingested[body].val
                    ELSE Stamped(Ingested[body].val)
        file == IF parsed /\ ~throws THEN FileAfterWrite(territoryFile, assigned, wr)
                ELSE territoryFile
        written == parsed /\ ~throws /\ wr = "ok"
        trigger == written /\ phase # "boot" /\ guildPresent
        r == UpdatePrefix(assigned, file, territoryMessageId, channelPresent)
        status == PostStatus(written, IF trigger THEN r.outcome ELSE "none")
    IN
    /\ (~parsed \/ throws) => wr = "ok"
    /\ trigger => CanStart
    /\ territoryFile' = file
    /\ IF trigger
       THEN /\ Started(r)
            /\ territoryData' = r.data
       ELSE /\ territoryData' = assigned
            /\ UNCHANGED pubs
    /\ lastReq' = [op |-> "POST", status |-> status, seen |-> <<>>,
                   trig |-> (trigger /\ r.outcome = "started")]
    /\ accepted' = IF status = 200 THEN [any |-> TRUE, bases |-> BasesSeen(assigned)]
                   ELSE accepted
    /\ UNCHANGED <<territoryMessageId, phase, guildPresent, channelPresent, live, lastMsg,
                   nextId, call, commandVars>>

\* lines 1514-1516: GET /api/territory
GetTerritory ==
    /\ lastReq' = [NoReq EXCEPT !.op = "GET", !.status = 200, !.seen = BasesSeen(territoryData)]
    /\ UNCHANGED <<territoryData, territoryFile, territoryMessageId, phase, guildPresent,
                   channelPresent, pubs, live, lastMsg, nextId, accepted, call, commandVars>>

\* lines 70-76 and 686: the process ends and is started again.  The module
\* state is initial again and the calls in flight and the timer are gone; the
\* snapshot file and the messages on the channel stay.
Restart ==
    /\ phase # "boot"
    /\ territoryData' = InitialData
    /\ territoryMessageId' = 0
    /\ phase' = "boot"
    /\ pubs' = EmptyBag
    /\ lastReq' = NoReq
    /\ UNCHANGED <<territoryFile, guildPresent, channelPresent, live, lastMsg, nextId,
                   accepted, call, commandVars>>

\* one continuation of updateTerritoryMap leaves everything but the publisher
PublisherFrame ==
    UNCHANGED <<territoryData, territoryFile, phase, guildPresent, channelPresent,
                lastReq, accepted, call, commandVars>>

\* line 641: generateMapImage resolved with the image
RenderResolves(pub) ==
    /\ pub.pc = "render"
    /\ Moved(pub, AfterRender(pub, TRUE, territoryMessageId))
    /\ PublisherFrame
    /\ UNCHANGED <<territoryMessageId, live, lastMsg, nextId>>

\* lines 644-646: generateMapImage rejected
RenderRejects(pub) ==
    /\ pub.pc = "render"
    /\ Moved(pub, AfterRender(pub, FALSE, territoryMessageId))
    /\ PublisherFrame
    /\ UNCHANGED <<territoryMessageId, live, lastMsg, nextId>>

\* line 659: the fetch of the old message resolved (from the cache or from
\* the channel)
FetchResolves(pub) ==
    /\ pub.pc = "fetch"
    /\ Moved(pub, AfterFetch(pub, TRUE))
    /\ PublisherFrame
    /\ UNCHANGED <<territoryMessageId, live, lastMsg, nextId>>

\* lines 659-663: the fetch rejected (message gone, or any request failure)
FetchRejects(pub) ==
    /\ pub.pc = "fetch"
    /\ Moved(pub, AfterFetch(pub, FALSE))
    /\ PublisherFrame
    /\ UNCHANGED <<territoryMessageId, live, lastMsg, nextId>>

\* line 660: the delete resolved, the old message is gone
DeleteResolves(pub) ==
    /\ pub.pc = "delete"
    /\ pub.old \in live
    /\ live' = ChannelAfterDelete(live, pub.old)
    /\ Moved(pub, AfterDelete(pub, TRUE))
    /\ PublisherFrame
    /\ UNCHANGED <<territoryMessageId, lastMsg, nextId>>

\* lines 660-663: the delete rejected (message gone, or any request failure)
DeleteRejects(pub) ==
    /\ pub.pc = "delete"
    /\ Moved(pub, AfterDelete(pub, FALSE))
    /\ PublisherFrame
    /\ UNCHANGED <<territoryMessageId, live, lastMsg, nextId>>

\* lines 667-668: channel.send resolved with the new message
SendResolves(pub) ==
    /\ pub.pc = "send"
    /\ nextId <= MaxMsgs
    /\ live' = live \cup {nextId}
    /\ lastMsg' = pub
    /\ territoryMessageId' = SlotAfterSend(territoryMessageId, nextId)
    /\ nextId' = nextId + 1
    /\ Ended(pub)
    /\ PublisherFrame

\* lines 669-671: channel.send rejected
SendRejects(pub) ==
    /\ pub.pc = "send"
    /\ Ended(pub)
    /\ phase' = ProcessAfterSendRejects(phase)
    /\ UNCHANGED <<territoryData, territoryFile, guildPresent, channelPresent, lastReq,
                   accepted, territoryMessageId, live, lastMsg, nextId, call, commandVars>>

\* lines 303 and 641: the loadImage awaited by the generateMapImage call of a
\* publish never settles.  No timer and no race bounds the await, so the
\* publish has no continuation left.
LoadImageNeverSettles(pub) ==
    /\ pub.pc = "render"
    /\ Moved(pub, [pub EXCEPT !.pc = "stalled"])
    /\ PublisherFrame
    /\ UNCHANGED <<territoryMessageId, live, lastMsg, nextId>>

\* the continuations of one publish in flight
Continues(pub) ==
    \/ RenderResolves(pub)
    \/ RenderRejects(pub)
    \/ FetchResolves(pub)
    \/ FetchRejects(pub)
    \/ DeleteResolves(pub)
    \/ DeleteRejects(pub)
    \/ SendResolves(pub)
    \/ SendRejects(pub)

\* the continuations of the publishes in flight
PublisherStep ==
    \/ \E pub \in InFlightPubs : RenderResolves(pub)
    \/ \E pub \in InFlightPubs : RenderRejects(pub)
    \/ \E pub \in InFlightPubs : FetchResolves(pub)
    \/ \E pub \in InFlightPubs : FetchRejects(pub)
    \/ \E pub \in InFlightPubs : DeleteResolves(pub)
    \/ \E pub \in InFlightPubs : DeleteRejects(pub)
    \/ \E pub \in InFlightPubs : SendResolves(pub)
    \/ \E pub \in InFlightPubs : SendRejects(pub)

\* lines 232-270: a convexHull call returns
ConvexHullReturns ==
    /\ call.fn = "convexHull"
    /\ ~call.done
    /\ call' = [call EXCEPT !.ret = ConvexHull(call.arg), !.done = TRUE,
                            !.arg = ArgumentAfter(call.arg)]
    /\ UNCHANGED <<territoryVars, commandVars>>

\* lines 344-401: a generateMapImage call has drawn, or has thrown
GenerateMapImageReturns ==
    /\ call.fn = "generateMapImage"
    /\ ~call.done
    /\ call' = [call EXCEPT !.ret = GenerateMapImage(call.arg), !.done = TRUE]
    /\ UNCHANGED <<territoryVars, commandVars>>

\* lines 533-676: an updateTerritoryMap call has settled
UpdateTerritoryMapSettles ==
    /\ call.fn = "updateTerritoryMap"
    /\ ~call.done
    /\ call' = [call EXCEPT !.ret = UpdateTerritoryMapRun(call.arg), !.done = TRUE]
    /\ UNCHANGED <<territoryVars, commandVars>>

\* lines 1472-1494: the handler has made parsedData of a body and stamped it,
\* or has thrown
IngestReturns ==
    /\ call.fn = "ingest"
    /\ ~call.done
    /\ call' = [call EXCEPT !.ret = IngestBody(call.arg), !.done = TRUE]
    /\ UNCHANGED <<territoryVars, commandVars>>

\* lines 561-628: updateTerritoryMap has built the fields of its embed, or
\* has thrown into its catch
BuildSummaryReturns ==
    /\ call.fn = "summary"
    /\ ~call.done
    /\ call' = [call EXCEPT !.ret = BuildSummary(call.arg), !.done = TRUE]
    /\ UNCHANGED <<territoryVars, commandVars>>

\* lines 275-303: generateMapImage is called and runs to its await, or to
\* its end
GenerateMapImageStarts ==
    /\ call.fn = "background"
    /\ call.pc = "called"
    /\ call' = StartBackground(call)
    /\ UNCHANGED <<territoryVars, commandVars>>

\* lines 303-304: loadImage resolved; drawImage draws the image, or throws
LoadImageResolves ==
    /\ call.fn = "background"
    /\ call.pc = "loading"
    /\ \E outcome \in {"loaded", "drawFailed"} : call' = AfterLoadImage(call, outcome)
    /\ UNCHANGED <<territoryVars, commandVars>>

\* lines 305-310: loadImage rejected
LoadImageRejects ==
    /\ call.fn = "background"
    /\ call.pc = "loading"
    /\ call' = AfterLoadImage(call, "loadFailed")
    /\ UNCHANGED <<territoryVars, commandVars>>

\* lines 1112-1194: /declarewar by member m.  participants grows with every
\* expansion; the command is followed while the list stays within
\* MaxParticipants.
DeclareWar(m, sel, now) ==
    LET o == DeclareWarOutcome(warState, m, memberRoles[m], sel, now) IN
    /\ Len(o.war.participants) <= MaxParticipants
    /\ warState' = o.war
    /\ warFile' = WarFileAfter(warFile, o)
    /\ interaction' = [cmd |-> "declarewar", reply |-> o.reply]
    /\ UNCHANGED <<territoryVars, call, playerData, memberRoles, guildRoles, commands>>

\* lines 1196-1269: /declarepeace by member m
DeclarePeace(m, sel) ==
    LET o == DeclarePeaceOutcome(warState, memberRoles[m], sel) IN
    /\ warState' = o.war
    /\ warFile' = WarFileAfter(warFile, o)
    /\ interaction' = [cmd |-> "declarepeace", reply |-> o.reply]
    /\ UNCHANGED <<territoryVars, call, playerData, memberRoles, guildRoles, commands>>

\* lines 1094-1110 and 1379-1382: /linkidentity by member m
LinkIdentity(m, id) ==
    /\ playerData' = Linked(playerData, m, memberRoles[m], id)
    /\ warFile' = [exists |-> TRUE, state |-> warState]
    /\ interaction' = [cmd |-> "linkidentity", reply |-> LinkReply, member |-> m, id |-> id]
    /\ UNCHANGED <<territoryVars, call, warState, memberRoles, guildRoles, commands>>

\* lines 1009-1013: /choosenationality by member m arrives.  A member's
\* commands are handled one after the other.  before and rolesPresent keep
\* what the member held and whether the server had the nationality roles
\* when the command arrived.
ChooseNationality(m, nationality) ==
    /\ commands[m].pc = "idle"
    /\ Cardinality(InProgress) < MaxCommands
    /\ commands' = [commands EXCEPT ![m] =
                        [pc |-> "nationality", nationality |-> nationality, turn |-> 1,
                         roleAdded |-> FALSE, rankAssigned |-> FALSE, rank |-> "Private",
                         before |-> memberRoles[m],
                         rolesPresent |-> NationalityNames \subseteq guildRoles]]
    /\ UNCHANGED <<territoryVars, call, warState, warFile, playerData, memberRoles,
                   guildRoles, interaction>>

\* lines 1015-1041: one turn of the loop, with the calls to Discord it awaits
NationalityRole(m) ==
    LET c == commands[m]
        t == NationalityTurn(memberRoles[m], guildRoles, NATIONALITIES[c.turn], c.nationality)
    IN
    /\ c.pc = "nationality"
    /\ memberRoles' = [memberRoles EXCEPT ![m] = t.roles]
    /\ guildRoles' = t.guild
    /\ commands' = [commands EXCEPT ![m] =
                        [c EXCEPT !.turn = c.turn + 1,
                                  !.roleAdded = c.roleAdded \/ t.added,
                                  !.pc = IF c.turn = Len(NATIONALITIES)
                                         THEN "rank" ELSE "nationality"]]
    /\ UNCHANGED <<territoryVars, call, warState, warFile, playerData, interaction>>

\* lines 1043-1069: currentData and the Private rank for a member without rank
AssignRank(m) ==
    LET c == commands[m]
        t == RankTurn(memberRoles[m], guildRoles)
    IN
    /\ c.pc = "rank"
    /\ memberRoles' = [memberRoles EXCEPT ![m] = t.roles]
    /\ guildRoles' = t.guild
    /\ commands' = [commands EXCEPT ![m] =
                        [c EXCEPT !.pc = "update", !.rankAssigned = t.assigned,
                                  !.rank = GetPlayerDataFromMember(memberRoles[m]).rank]]
    /\ UNCHANGED <<territoryVars, call, warState, warFile, playerData, interaction>>

\* lines 1071-1091: the record is updated, saveData runs and the reply is sent
ChooseNationalityReplies(m) ==
    LET c == commands[m] IN
    /\ c.pc = "update"
    /\ playerData' = Chosen(playerData, m, c.nationality, c.rank)
    /\ warFile' = [exists |-> TRUE, state |-> warState]
    /\ interaction' = [cmd |-> "choosenationality", reply |-> "nationalitySet",
                       member |-> m, nationality |-> c.nationality,
                       roleAdded |-> c.roleAdded, rankAssigned |-> c.rankAssigned]
    /\ commands' = [commands EXCEPT ![m] = NoCommand]
    /\ UNCHANGED <<territoryVars, call, warState, memberRoles, guildRoles>>

\* lines 211-227: the callback of syncAllPlayers, called by clientReady
\* (line 705) and by /sync (line 1367), with the saveData behind the loop
SyncAllPlayers ==
    /\ playerData' = Synced(playerData, memberRoles, 1)
    /\ warFile' = [exists |-> TRUE, state |-> warState]
    /\ UNCHANGED <<territoryVars, call, warState, memberRoles, guildRoles, interaction,
                   commands>>

\* lines 906-955: /setnationality for the member target
SetNationality(target, nationality) ==
    LET t == RolesSet(memberRoles[target], guildRoles, NationalityNames, nationality) IN
    /\ memberRoles' = [memberRoles EXCEPT ![target] = t.roles]
    /\ guildRoles' = t.guild
    /\ playerData' = Chosen(playerData, target, nationality,
                            GetPlayerDataFromMember(t.roles).rank)
    /\ warFile' = [exists |-> TRUE, state |-> warState]
    /\ interaction' = [cmd |-> "setnationality", reply |-> "set"]
    /\ UNCHANGED <<territoryVars, call, warState, commands>>

\* lines 957-1007: /setrank for the member target
SetRank(target, rank) ==
    LET t == RolesSet(memberRoles[target], guildRoles, RankNames, rank) IN
    /\ memberRoles' = [memberRoles EXCEPT ![target] = t.roles]
    /\ guildRoles' = t.guild
    /\ playerData' = Chosen(playerData, target,
                            GetPlayerDataFromMember(t.roles).nationality, rank)
    /\ warFile' = [exists |-> TRUE, state |-> warState]
    /\ interaction' = [cmd |-> "setrank", reply |-> "set"]
    /\ UNCHANGED <<territoryVars, call, warState, commands>>

\* lines 1402-1457: GET /api/player/:identifier
GetPlayer(id, fresh) ==
    /\ lastReq' = [op |-> "GET player", id |-> id]
                   @@ PlayerResponse(playerData, memberRoles, id, fresh)
    /\ UNCHANGED <<territoryData, territoryFile, territoryMessageId, phase, guildPresent,
                   channelPresent, pubs, live, lastMsg, nextId, accepted, call, commandVars>>

\* ------------------------------------------------------------ specifications
\* Publishes overlap freely; the game server posts well-formed snapshots and
\* the file write succeeds.
Next ==
    \/ ClientReady
    \/ StartTerritoryUpdates
    \/ TimerTick
    \/ \E body \in PlainBodies : PostTerritory(body, "ok")
    \/ PublisherStep

Spec == Init /\ [][Next]_vars

\* Every request body and every write outcome; a request, a timer tick or the
\* start-up publish comes while no publish is in flight, so that publishes
\* run one at a time.
SerialNext ==
    \/ ClientReady
    \/ (Quiet /\ StartTerritoryUpdates)
    \/ (Quiet /\ TimerTick)
    \/ (Quiet /\ \E body \in Bodies, wr \in WriteOutcomes : PostTerritory(body, wr))
    \/ GetTerritory
    \/ PublisherStep

SerialSpec == Init /\ [][SerialNext]_vars

\* As Spec, with every render and every Discord call succeeding.
NoFailNext ==
    \/ ClientReady
    \/ StartTerritoryUpdates
    \/ TimerTick
    \/ \E body \in PlainBodies : PostTerritory(body, "ok")
    \/ \E pub \in InFlightPubs : RenderResolves(pub)
    \/ \E pub \in InFlightPubs : FetchResolves(pub)
    \/ \E pub \in InFlightPubs : DeleteResolves(pub)
    \/ \E pub \in InFlightPubs : SendResolves(pub)

NoFailSpec == Init /\ [][NoFailNext]_vars

\* The publisher on its own: start-up, the timer and the continuations.  The
\* timer fires again and again, every awaited call settles, and sends do not
\* fail for ever.
TimerNext ==
    \/ ClientReady
    \/ StartTerritoryUpdates
    \/ TimerTick
    \/ PublisherStep

FairSpec ==
    /\ Init
    /\ [][TimerNext]_vars
    /\ WF_vars(ClientReady)
    /\ WF_vars(StartTerritoryUpdates)
    /\ SF_vars(TimerTick)
    /\ WF_vars(PublisherStep)
    /\ SF_vars(\E pub \in InFlightPubs : SendResolves(pub))

\* As the publisher on its own, with background loads that may never settle.
StallNext ==
    \/ ClientReady
    \/ StartTerritoryUpdates
    \/ TimerTick
    \/ PublisherStep
    \/ \E pub \in InFlightPubs : LoadImageNeverSettles(pub)

StallSpec == Init /\ [][StallNext]_vars

\* As SerialSpec without the GET, with the process restarting at any time.
RestartNext ==
    \/ ClientReady
    \/ (Quiet /\ StartTerritoryUpdates)
    \/ (Quiet /\ TimerTick)
    \/ (Quiet /\ \E body \in Bodies, wr \in WriteOutcomes : PostTerritory(body, wr))
    \/ PublisherStep
    \/ Restart

RestartSpec == Init /\ [][RestartNext]_vars

\* the territory pipeline at rest, while one function is followed on its own
TerritoryIdle ==
    /\ territoryData = InitialData
    /\ territoryFile = NoFile
    /\ territoryMessageId = 0
    /\ phase = "boot"
    /\ guildPresent = FALSE
    /\ channelPresent = FALSE
    /\ pubs = EmptyBag
    /\ live = {}
    /\ lastMsg = IdlePub
    /\ nextId = 1
    /\ lastReq = NoReq
    /\ accepted = [any |-> FALSE, bases |-> <<>>]

\* the points of the canvas grid, and the sequences of them a call may get
Grid == {Pt(px, py) : px \in 0..MaxCoord, py \in 0..MaxCoord}
PointSeqs == UNION {[1..n -> Grid] : n \in 0..MaxPoints}

\* convexHull on its own: one call on any sequence of grid points
HullInit ==
    /\ TerritoryIdle
    /\ CommandsIdle
    /\ call \in {[fn |-> "convexHull", done |-> FALSE, arg |-> pts, given |-> pts,
                   ret |-> <<>>] : pts \in PointSeqs}

HullNext == ConvexHullReturns

HullSpec == HullInit /\ [][HullNext]_vars

\* the bases a snapshot is made of: the three playable factions' bases on and
\* off one line, an HQ, bases on the edges of the map, a base without z, and
\* bases of no playable faction
BaseKinds ==
    {Base("US", "FOB", At(3200), At(3200)), Base("US", "FOB", At(6400), At(3200)),
     Base("US", "FOB", At(9600), At(3200)), Base("US", "POI", At(3200), At(6400)),
     Base("US", "FOB", At(MAP_SIZE), At(MAP_SIZE)), Base("US", "FOB", At(0), At(6400)),
     Base("US", "FOB", At(6400), Missing), Base("US", "HQ", At(6400), At(6400)),
     Base("USSR", "FOB", At(6400), At(6400)), Base("Neutral", "FOB", At(3200), At(3200)),
     Base("absent", "FOB", At(1), At(MAP_SIZE)), Base("CIV", "POI", At(9600), At(9600)),
     Base("constructor", "FOB", At(6400), At(6400))}

\* two factions with three bases off one line each, and one with two bases
TwoBorders ==
    <<Base("US", "FOB", At(3200), At(3200)), Base("USSR", "FOB", At(9600), At(9600)),
      Base("US", "FOB", At(6400), At(3200)), Base("USSR", "POI", At(12000), At(9600)),
      Base("FIA", "FOB", At(1600), At(9600)), Base("US", "POI", At(3200), At(6400)),
      Base("USSR", "FOB", At(9600), At(12000)), Base("FIA", "FOB", At(1600), At(12000))>>

Snapshots == UNION {[1..n -> BaseKinds] : n \in 0..MaxBases} \cup {TwoBorders}

\* generateMapImage on its own: one call on any snapshot
RenderInit ==
    /\ TerritoryIdle
    /\ CommandsIdle
    /\ call \in {[fn |-> "generateMapImage", done |-> FALSE, arg |-> bases,
                   ret |-> <<>>] : bases \in Snapshots}

RenderNext == GenerateMapImageReturns

RenderSpec == RenderInit /\ [][RenderNext]_vars

\* the texts of the keys of a decoded body, and of the array body a mangled
\* body carries as its nested key
KeyTexts == {<<"bases">>, <<BasesPrefix>>, <<"{">>, <<"x">>}
ArrayContents == {<<"b1">>, <<"b1", ",", "b2">>, <<"b1", ",">>}

\* the keys of a mapping, in order: up to two, no key twice
KeyLists ==
    {ks \in UNION {[1..n -> KeyTexts] : n \in 0..2} :
        \A i, j \in 1..Len(ks) : i # j => ks[i] # ks[j]}

\* the decoded bodies: mappings of up to two keys, arrays, and raw texts
DecodedBodies ==
    {Body("mapping", ks, inn, JVal("object", b, "absent"), <<>>) :
        ks \in KeyLists,
        inn \in {<<>>} \cup {<<c>> : c \in ArrayContents},
        b \in {<<>>, <<"b1">>}}
    \cup {ArrayBody(b) : b \in {<<>>, <<"b1">>}}
    \cup {StringBody(t) : t \in {<<BasesPrefix, "[", "b1", "]", "}">>, <<"[", "b1", "]">>,
                                 <<"null">>, <<"5">>, TruncatedText}}

\* the parse block of POST /api/territory on its own: one body
IngestInit ==
    /\ TerritoryIdle
    /\ CommandsIdle
    /\ call \in {[fn |-> "ingest", done |-> FALSE, arg |-> body, ret |-> <<>>] :
                    body \in DecodedBodies}

IngestNext == IngestReturns

IngestSpec == IngestInit /\ [][IngestNext]_vars

\* the bases a summary is made of: every faction group, a base without
\* faction, a faction the bot does not know, a name every object inherits,
\* and a type that is none of HQ, FOB and POI
SummaryBases ==
    {Base("US", "HQ", Missing, Missing), Base("US", "FOB", Missing, Missing),
     Base("US", "POI", Missing, Missing), Base("US", "Depot", Missing, Missing),
     Base("USSR", "FOB", Missing, Missing), Base("FIA", "POI", Missing, Missing),
     Base("Neutral", "FOB", Missing, Missing), Base("absent", "HQ", Missing, Missing),
     Base("CIV", "FOB", Missing, Missing), Base("CIV", "absent", Missing, Missing),
     Base("constructor", "FOB", Missing, Missing),
     Base("constructor", "Depot", Missing, Missing)}

SummarySnapshots == UNION {[1..n -> SummaryBases] : n \in 0..MaxBases}

\* the summary of updateTerritoryMap on its own: one list of bases
SummaryInit ==
    /\ TerritoryIdle
    /\ CommandsIdle
    /\ call \in {[fn |-> "summary", done |-> FALSE, arg |-> bases, ret |-> <<>>] :
                    bases \in SummarySnapshots}

SummaryNext == BuildSummaryReturns

SummarySpec == SummaryInit /\ [][SummaryNext]_vars

\* the snapshots a call is followed through its background with: none, one
\* or two bases, and the snapshot of two borders
BackgroundSnapshots ==
    {<<>>, TwoBorders}
    \cup {<<b>> : b \in BaseKinds}
    \cup {<<b, c>> : b \in BaseKinds, c \in BaseKinds}

\* generateMapImage followed through its await: one call, with or without
\* the background file
BackgroundInit ==
    /\ TerritoryIdle
    /\ CommandsIdle
    /\ call \in {[fn |-> "background", pc |-> "called", done |-> FALSE, file |-> f,
                   load |-> "none", bg |-> "none", arg |-> bases, ret |-> <<>>,
                   image |-> FALSE] :
                    f \in BOOLEAN, bases \in BackgroundSnapshots}

BackgroundNext ==
    \/ GenerateMapImageStarts
    \/ LoadImageResolves
    \/ LoadImageRejects

BackgroundSpec == BackgroundInit /\ [][BackgroundNext]_vars

\* the times a command may read from the clock
Times == {"t1", "t2"}

\* the war commands on their own: any member issues any command
WarInit ==
    /\ TerritoryIdle
    /\ CommandsIdle
    /\ call = NoCall

WarNext ==
    \/ \E m \in Members, sel \in Selections, now \in Times : DeclareWar(m, sel, now)
    \/ \E m \in Members, sel \in Selections : DeclarePeace(m, sel)

WarSpec == WarInit /\ [][WarNext]_vars

\* the identity ids players link, and the members who link
IdentityIds == {"ID1", "ID2"}
Linkers == {"hosUS", "general", "newcomer"}

\* /linkidentity and the player lookup on their own
LinkInit ==
    /\ TerritoryIdle
    /\ CommandsIdle
    /\ call = NoCall

LinkNext ==
    \/ \E m \in Linkers, id \in IdentityIds : LinkIdentity(m, id)
    \/ \E id \in IdentityIds, fresh \in BOOLEAN : GetPlayer(id, fresh)

LinkSpec == LinkInit /\ [][LinkNext]_vars

\* the members who choose a nationality: one without any role and one with
\* a nationality and a rank
Choosers == {"newcomer", "general"}

\* the roles the server may have when the bot starts: all of them, all but
\* Private, all but FIA and Private
ServerRoles ==
    {NationalityNames \cup RankNames, (NationalityNames \cup RankNames) \ {"Private"},
     (NationalityNames \cup RankNames) \ {"FIA", "Private"}}

\* /choosenationality on its own; a member holds only roles the server has
RoleInit ==
    /\ TerritoryIdle
    /\ call = NoCall
    /\ warState = InitialWarState
    /\ warFile = NoWarFile
    /\ playerData = <<>>
    /\ guildRoles \in ServerRoles
    /\ memberRoles = [m \in Members |-> Cast[m] \cap guildRoles]
    /\ interaction = NoInteraction
    /\ commands = [m \in Members |-> NoCommand]

RoleNext ==
    \/ \E m \in Choosers, n \in NationalityNames : ChooseNationality(m, n)
    \/ \E m \in Choosers : NationalityRole(m)
    \/ \E m \in Choosers : AssignRank(m)
    \/ \E m \in Choosers : ChooseNationalityReplies(m)

RoleSpec == RoleInit /\ [][RoleNext]_vars

\* what one updateTerritoryMap call can meet: the channel is there or not;
\* the snapshot file is absent, readable, corrupt or holds null; the bases
\* are none, well-formed, or hold an entry the loop throws on; there is a
\* slot id or not; the render and each Discord call succeed or fail
CatchBases ==
    {<<>>, <<Base("US", "FOB", Missing, Missing)>>,
     <<Base("constructor", "FOB", Missing, Missing)>>,
     <<Base("US", "HQ", Missing, Missing), Base("constructor", "HQ", Missing, Missing)>>}

CatchScenarios ==
    [chan : BOOLEAN, file : {"none", "ok", "corrupt", "null"}, bases : CatchBases,
     render : BOOLEAN, slot : BOOLEAN, fetch : BOOLEAN, delete : BOOLEAN, send : BOOLEAN]

CatchInit ==
    /\ TerritoryIdle
    /\ CommandsIdle
    /\ call \in {[fn |-> "updateTerritoryMap", done |-> FALSE, arg |-> sc, ret |-> <<>>] :
                    sc \in CatchScenarios}

CatchNext == UpdateTerritoryMapSettles

CatchSpec == CatchInit /\ [][CatchNext]_vars

\* the ranks an admin sets, and the member whose roles are kept
RanksSet == {"Private", "Head_of_State"}
Bookkept == {"newcomer"}

\* the commands that write player records, in any order: /linkidentity,
\* /sync and the startup sync, /setnationality, /setrank, /choosenationality
IdentityNext ==
    \/ \E m \in Bookkept, id \in IdentityIds : LinkIdentity(m, id)
    \/ SyncAllPlayers
    \/ \E m \in Bookkept, n \in NationalityNames : SetNationality(m, n)
    \/ \E m \in Bookkept, r \in RanksSet : SetRank(m, r)
    \/ \E m \in Bookkept, n \in NationalityNames : ChooseNationality(m, n)
    \/ \E m \in Bookkept : NationalityRole(m)
    \/ \E m \in Bookkept : AssignRank(m)
    \/ \E m \in Bookkept : ChooseNationalityReplies(m)

IdentitySpec == LinkInit /\ [][IdentityNext]_vars

\* the war commands that come while publishes are in flight
HeaderCommands ==
    \/ DeclareWar("hosUS", <<"USSR", "null", "null">>, "t1")
    \/ DeclarePeace("hosUSSR", <<"USSR", "null", "null">>)

\* As NoFailSpec, with a Head of State declaring war and another making
\* peace at any time.
HeaderNext ==
    \/ NoFailNext
    \/ HeaderCommands

HeaderSpec == Init /\ [][HeaderNext]_vars

TypeOK ==
    /\ territoryMessageId \in 0..MaxMsgs
    /\ nextId \in 1..(MaxMsgs + 1)
    /\ live \subseteq MsgIds
    /\ phase \in {"boot", "syncing", "running", "noguild"}
    /\ BagCardinality(pubs) <= MaxInFlight

\* ------------------------------------------------------------------- claims
AnyPost == \E body \in Bodies, wr \in WriteOutcomes : PostTerritory(body, wr)

\* C1: once a POST has been accepted, every later GET answers with exactly
\* the bases of the last accepted snapshot, and every publish in flight was
\* built from them (SerialSpec: it started after that POST).
C1_SnapshotReplace ==
    accepted.any =>
        /\ lastReq.op = "GET" => lastReq.seen = accepted.bases
        /\ \A pub \in InFlightPubs : BasesSeen(pub.src) = accepted.bases

\* C2: a POST that answers 500 leaves territoryData and the snapshot file as
\* they were before the request.
C2_ErrorLeavesSnapshot ==
    [][(AnyPost /\ lastReq'.status = 500)
        => (territoryData' = territoryData /\ territoryFile' = territoryFile)]_vars

\* C3: with publishes running one at a time (SerialSpec), at most one
\* territory message is live on the channel in every state.
C3_AtMostOneLive == Cardinality(live) <= 1

\* a live message that is not tracked and that no publish in flight is about
\* to fetch or delete
Orphan(m) ==
    /\ m \in live
    /\ m # territoryMessageId
    /\ \A pub \in InFlightPubs : pub.pc \in {"fetch", "delete"} => pub.old # m

\* C4: a message left untracked by overlapping publishes stays on the
\* channel and stays untracked: no later publish deletes it.
C4_OrphanStays == [][\A m \in MsgIds : Orphan(m) => Orphan(m)']_vars

\* two publishes both read the empty slot, both sent, and message 1 is left
\* untracked beside the tracked message 2
C4_Witness ==
    /\ Quiet
    /\ nextId = 3
    /\ live = {1, 2}
    /\ territoryMessageId = 2
    /\ lastMsg.old = 0
    /\ Orphan(1)

\* the id of the message whose send completed last (ids are given in the
\* order the sends complete), 0 before the first
LastSentId == nextId - 1

\* C5: territoryMessageId is empty while no send has completed, and else the
\* id of the message whose send completed last.
C5_LastSendWins == territoryMessageId = LastSentId

\* three sends have completed, the last two of them by overlapping publishes
C5_Witness ==
    /\ nextId = 4
    /\ territoryMessageId = 3
    /\ {2, 3} \subseteq live
    /\ lastMsg.old = 1

\* C6: after an accepted POST whose publish got under way, once no publish
\* is in flight the tracked message was built from the accepted snapshot.
C6_TrackedShowsAccepted ==
    (lastReq.op = "POST" /\ lastReq.status = 200 /\ lastReq.trig /\ Quiet)
        => (territoryMessageId # 0 /\ BasesSeen(lastMsg.src) = accepted.bases)

\* C7: a rejected fetch or delete of the old message leaves its publish at
\* the send, and a send that resolves makes the new message live and tracked.
C7_CleanupNeverBlocks ==
    [][/\ \A pub \in InFlightPubs :
            (FetchRejects(pub) \/ DeleteRejects(pub))
                => AtPc(pubs', "send") = AtPc(pubs, "send") + 1
       /\ \A pub \in InFlightPubs :
            SendResolves(pub) => (territoryMessageId' = nextId /\ nextId \in live')]_vars

\* the tracked live message was sent by a publish whose cleanup failed
C7_Witness ==
    /\ lastMsg.cleanup \in {"fetchFailed", "deleteFailed"}
    /\ territoryMessageId = LastSentId
    /\ territoryMessageId \in live

\* what C8 says of one publish record or sent message
RenderContract(r) ==
    /\ r.pc = "render" => HasBases(r.src)
    /\ ~HasBases(r.src) => (r.render = "skipped" /\ ~r.image)
    /\ r.render = "failed" => (~r.image /\ HasBases(r.src))
    /\ r.pc # "idle" => (r.fields = SummaryFields(r.src) /\ r.fields # {})

\* C8: a publish whose render failed goes on to replace the slot and sends
\* its summary without an image; a snapshot without bases is never rendered.
C8_RenderFailureStillSends ==
    /\ [](RenderContract(lastMsg) /\ \A pub \in InFlightPubs : RenderContract(pub))
    /\ [][\A pub \in InFlightPubs :
            RenderRejects(pub)
                => AtPc(pubs', "fetch") + AtPc(pubs', "send")
                   = AtPc(pubs, "fetch") + AtPc(pubs, "send") + 1]_vars

\* the tracked live message was sent after its render failed
C8_Witness ==
    /\ lastMsg.render = "failed"
    /\ ~lastMsg.image
    /\ lastMsg.fields # {}
    /\ territoryMessageId = LastSentId
    /\ territoryMessageId \in live

\* C10: a POST whose payload was parsed, stamped and written answers 200
\* whatever became of the publish it triggered, and answers while that
\* publish is still in flight.
C10_SuccessWhateverThePublish ==
    [][\A body \in Bodies :
        (PostTerritory(body, "ok") /\ Ingested[body].parsed /\ ~Ingested[body].throws)
            => /\ lastReq'.status = 200
               /\ lastReq'.trig => BagCardinality(pubs') = BagCardinality(pubs) + 1]_vars

\* a POST answered 200 while the publish it triggered awaits its send
C10_Witness ==
    /\ lastReq.op = "POST"
    /\ lastReq.status = 200
    /\ lastReq.trig
    /\ AtPc(pubs, "send") = 1

\* the timer is set and a publish it starts gets to its await
Publishing ==
    /\ phase = "running"
    /\ channelPresent
    /\ ReloadOK(territoryFile)
    /\ ~BasesReadThrows(Reloaded(territoryData, territoryFile))

TrackedLive == territoryMessageId # 0 /\ territoryMessageId \in live

\* C9: a rejected send only ends its own publish (the timer stays set and
\* the next publish can start), and from every state in which the timer
\* publishes, so after every rejected send, a message is eventually live and
\* tracked, as long as the channel still accepts messages.
C9_RejectedSendIsNotFatal ==
    /\ [][\A pub \in InFlightPubs :
            SendRejects(pub)
                => /\ Publishing'
                   /\ BagCardinality(pubs') = BagCardinality(pubs) - 1
                   /\ territoryMessageId' = territoryMessageId]_vars
    /\ [](Publishing => <>(TrackedLive \/ nextId > MaxMsgs))

\* after a publish deleted the old message and its send was rejected, the
\* slot names a message that is gone, and the timer is still set
C9_Witness ==
    /\ Quiet
    /\ Publishing
    /\ territoryMessageId # 0
    /\ territoryMessageId \notin live
    /\ nextId <= MaxMsgs

\* C11: after a POST that answers 200, territoryData carries a lastUpdate
\* stamp, and the snapshot file exists, parses, and holds the same bases with
\* a lastUpdate stamp.
C11_AcceptedIsStampedAndStored ==
    [][(AnyPost /\ lastReq'.status = 200)
        => /\ territoryData'.lastUpdate = "stamp"
           /\ territoryFile'.exists
           /\ ParsedFile[territoryFile'.text].ok
           /\ ParsedFile[territoryFile'.text].val.lastUpdate = "stamp"
           /\ ParsedFile[territoryFile'.text].val.bases = territoryData'.bases]_vars

\* the publish that an action starts was built from the last accepted snapshot
StartsFromAccepted ==
    /\ BagCardinality(pubs') = BagCardinality(pubs) + 1
    /\ \E pub \in BagToSet(pubs') :
        /\ CopiesIn(pub, pubs') = CopiesIn(pub, pubs) + 1
        /\ BasesSeen(pub.src) = accepted.bases

\* C12: a restart empties territoryMessageId, and the start-up publish of a
\* process that finds the channel is built from the snapshot of the last
\* accepted POST, reloaded from the snapshot file.
C12_RestartReloadsAccepted ==
    [][/\ Restart => territoryMessageId' = 0
       /\ (StartTerritoryUpdates /\ accepted.any /\ channelPresent)
            => StartsFromAccepted]_vars

Returned == call.fn = "convexHull" /\ call.done

\* the vertex after vertex i, going round
NextIx(h, i) == IF i = Len(h) THEN 1 ELSE i + 1

\* p lies on the segment from a to b, and is neither a nor b
OnOpenSegment(p, a, b) ==
    /\ Cross(a, b, p) = 0
    /\ p # a /\ p # b
    /\ (IF a.x <= b.x THEN a.x <= p.x /\ p.x <= b.x ELSE b.x <= p.x /\ p.x <= a.x)
    /\ (IF a.y <= b.y THEN a.y <= p.y /\ p.y <= b.y ELSE b.y <= p.y /\ p.y <= a.y)

\* h lists the vertices of a simple convex polygon that contains every point
\* of pts: at least three vertices, a strict turn to the same side at every
\* vertex, every vertex and every point of pts on the inner side of every
\* edge, and no vertex inside an edge between two other vertices
ConvexPolygonAround(h, pts) ==
    /\ Len(h) >= 3
    /\ \A i \in 1..Len(h) : Cross(h[i], h[NextIx(h, i)], h[NextIx(h, NextIx(h, i))]) > 0
    /\ \A i, j \in 1..Len(h) : Cross(h[i], h[NextIx(h, i)], h[j]) >= 0
    /\ \A i \in 1..Len(h) : \A j \in 1..Len(pts) : Cross(h[i], h[NextIx(h, i)], pts[j]) >= 0
    /\ \A i, j, k \in 1..Len(h) :
        (i # j /\ i # k /\ j # k) => ~OnOpenSegment(h[i], h[j], h[k])

AllCollinear(pts) == \A i, j, k \in 1..Len(pts) : Cross(pts[i], pts[j], pts[k]) = 0

\* C13 as stated: for every input of at least 3 points convexHull returns
\* the vertices of a simple convex polygon that contains every input point,
\* with no vertex inside an edge between two others.
C13_HullIsPolygon ==
    (Returned /\ Len(call.arg) >= 3) => ConvexPolygonAround(call.ret, call.arg)

\* C13 amended: for an input of at least 3 points that are not all on one
\* line the result is such a polygon; for an input whose points are all on
\* one line (all equal included) it is no polygon but the two ends of the
\* segment that holds them: the first and the last point in sort order.
C13_HullIsPolygonOrSegment ==
    (Returned /\ Len(call.arg) >= 3) =>
        IF AllCollinear(call.arg)
        THEN /\ Len(call.ret) = 2
             /\ call.ret[1] = Sorted(call.arg)[1]
             /\ call.ret[2] = Sorted(call.arg)[Len(call.arg)]
             /\ \A j \in 1..Len(call.arg) :
                    \/ call.arg[j] \in {call.ret[1], call.ret[2]}
                    \/ OnOpenSegment(call.arg[j], call.ret[1], call.ret[2])
        ELSE ConvexPolygonAround(call.ret, call.arg)

\* a triangle returned for four points, one of them inside an edge of the
\* triangle
C13_Witness ==
    /\ Returned
    /\ call.arg = <<Pt(2, 0), Pt(0, 0), Pt(1, 0), Pt(0, 2)>>
    /\ call.ret = <<Pt(0, 0), Pt(2, 0), Pt(0, 2)>>

\* C14: for an input of fewer than 3 points convexHull returns the input:
\* the same points in the same order.
C14_SmallInputUnchanged == (Returned /\ Len(call.arg) < 3) => call.ret = call.arg

\* two points that are not in sort order come back as they were given
C14_Witness ==
    /\ Returned
    /\ call.arg = <<Pt(2, 1), Pt(0, 0)>>
    /\ call.ret = call.arg

Drawn == call.fn = "generateMapImage" /\ call.done

PlayableSet == {Playable[i] : i \in 1..3}

\* C15: every point of faction F's hull-point list comes from a base of the
\* snapshot with faction F and a type other than HQ, one point per such base;
\* a base that is Neutral, has no faction or another faction, or is an HQ, is
\* the source of no point of any list.
C15_HullPointsFilter ==
    Drawn =>
        /\ \A f \in PlayableSet :
            /\ Len(call.ret.sources[f]) = Len(call.ret.factionBases[f])
            /\ \A k \in 1..Len(call.ret.sources[f]) :
                /\ call.arg[call.ret.sources[f][k]].faction = f
                /\ call.arg[call.ret.sources[f][k]].type # "HQ"
        /\ \A i \in 1..Len(call.arg) :
            (call.arg[i].faction \notin PlayableSet \/ call.arg[i].type = "HQ")
                => \A f \in PlayableSet : \A k \in 1..Len(call.ret.sources[f]) :
                        call.ret.sources[f][k] # i

\* of a Neutral base, an HQ, a base of another faction and a US outpost, only
\* the outpost gave a hull point
C15_Witness ==
    /\ Drawn
    /\ ~call.ret.threw
    /\ call.arg = <<Base("Neutral", "FOB", At(3200), At(3200)),
                    Base("US", "HQ", At(6400), At(6400)),
                    Base("CIV", "POI", At(9600), At(9600)),
                    Base("US", "FOB", At(3200), At(3200))>>
    /\ call.ret.sources = [NoPoints EXCEPT !["US"] = <<4>>]
    /\ Len(call.ret.positions) = 4

\* C16: in a render that does not throw, a base is placed (has an entry in
\* basePositions) if and only if both its x and its z are present.
C16_PlacedIffBothCoordinates ==
    (Drawn /\ ~call.ret.threw) =>
        \A i \in 1..Len(call.arg) :
            (call.arg[i].x.present /\ call.arg[i].z.present)
                <=> \E k \in 1..Len(call.ret.positions) : call.ret.positions[k].ix = i

\* the canvas points of the placed bases of faction f that are no HQ
EligiblePoints(f) ==
    LET own(q) == q.base.faction = f /\ q.base.type # "HQ"
        qs == SelectSeq(call.ret.positions, own)
    IN [k \in 1..Len(qs) |-> Pt(qs[k].canvasX, qs[k].canvasY)]

Stroked(f) == \E b \in call.ret.borders : b.faction = f

\* C17: in a render that gets to the border loop, a playable faction gets a
\* border if and only if it has at least 3 placed bases that are no HQ and
\* their hull has at least 3 vertices; three such bases off one line give a
\* path through exactly their three points, in the faction's own border
\* colour (no two factions share one); with two or fewer there is no border;
\* and no border is stroked for anything but a playable faction.
C17_BorderIffThreeHullPoints ==
    (Drawn /\ ~call.ret.threw) =>
        /\ \A f \in PlayableSet :
            /\ Stroked(f) <=> (Len(EligiblePoints(f)) >= 3
                               /\ Len(ConvexHull(EligiblePoints(f))) >= 3)
            /\ Len(EligiblePoints(f)) <= 2 => ~Stroked(f)
            /\ (Len(EligiblePoints(f)) = 3 /\ ~AllCollinear(EligiblePoints(f)))
                => \E b \in call.ret.borders :
                    /\ b.faction = f
                    /\ Len(b.path) = 3
                    /\ {b.path[k] : k \in 1..3} = {EligiblePoints(f)[k] : k \in 1..3}
        /\ \A b \in call.ret.borders : b.faction \in PlayableSet /\ b.colour = BorderColor(b.faction)
        /\ \A b, c \in call.ret.borders : b.faction # c.faction => b.colour # c.colour
        /\ \A b, c \in call.ret.borders : b.faction = c.faction => b = c

\* two factions with three bases each got a border each, the faction with
\* two bases got none
C17_Witness ==
    /\ Drawn
    /\ call.arg = TwoBorders
    /\ {b.faction : b \in call.ret.borders} = {"US", "USSR"}
    /\ Len(EligiblePoints("FIA")) = 2

\* C18: for every placed base with whole world coordinates in 0..MAP_SIZE,
\* canvasX = x * CANVAS_SIZE / MAP_SIZE and canvasY = (MAP_SIZE - z) *
\* CANVAS_SIZE / MAP_SIZE, both within 0..CANVAS_SIZE; of two placed bases the
\* one with the greater x has the greater canvasX, and the one with the
\* greater z has the smaller canvasY.  (Canvas coordinates are in units of
\* 1/SCALE.den pixel.)
C18_CoordinateMapping ==
    Drawn =>
        /\ \A k \in 1..Len(call.ret.positions) :
            LET q == call.ret.positions[k] IN
            /\ q.canvasX * MAP_SIZE = q.base.x.v * CANVAS_SIZE * SCALE.den
            /\ q.canvasY * MAP_SIZE = (MAP_SIZE - q.base.z.v) * CANVAS_SIZE * SCALE.den
            /\ q.canvasX >= 0 /\ q.canvasX <= CANVAS_SIZE * SCALE.den
            /\ q.canvasY >= 0 /\ q.canvasY <= CANVAS_SIZE * SCALE.den
        /\ \A k, l \in 1..Len(call.ret.positions) :
            LET q == call.ret.positions[k]
                r == call.ret.positions[l] IN
            /\ q.base.x.v < r.base.x.v => q.canvasX < r.canvasX
            /\ q.base.z.v < r.base.z.v => q.canvasY > r.canvasY

\* three placed bases, from the inside of the map to its far corner
C18_Witness ==
    /\ Drawn
    /\ call.arg = <<Base("US", "FOB", At(3200), At(3200)), Base("US", "POI", At(3200), At(6400)),
                    Base("US", "FOB", At(MAP_SIZE), At(MAP_SIZE))>>
    /\ Len(call.ret.positions) = 3
    /\ call.ret.positions[1].canvasY > call.ret.positions[2].canvasY
    /\ call.ret.positions[3].canvasX = CANVAS_SIZE * SCALE.den
    /\ call.ret.positions[3].canvasY = 0

Ingestion == call.fn = "ingest" /\ call.done

\* the mangled body whose top-level key is {"bases": and whose nested value
\* has the single key that is the array body text of the bases b
MangledOf(b) == MangledBody(<<JoinItems(b)>>)

\* C19: the mangled body carrying the array body text S is parsed and stored
\* as the JSON body {"bases":[S]} posted directly is: the same bases, stamped.
C19_MangledEqualsDirect ==
    \A b \in {<<"b1">>, <<"b1", "b2">>} :
        (Ingestion /\ call.arg = MangledOf(b)) =>
            /\ call.ret.how = "reconstructed"
            /\ call.ret.ok
            /\ call.ret.val = ParsedData(ObjectBody(b))
            /\ call.ret.stored = Stamped(ParsedData(ObjectBody(b)))
            /\ call.ret.stored.bases = b

\* the mangled body of the one-base snapshot was stored as that snapshot
C19_Witness ==
    /\ Ingestion
    /\ call.arg = MangledOf(<<"b1">>)
    /\ call.ret.stored = JVal("object", <<"b1">>, "stamp")

\* C20: a mapping is reconstructed exactly when it has one key and that key
\* begins with '{'; every other mapping is accepted as it is; a string body is
\* handed to JSON.parse as it is.
C20_MangledIffSoleBraceKey ==
    Ingestion =>
        /\ call.arg.shape = "mapping" =>
            /\ call.ret.how = "reconstructed"
                <=> (Len(call.arg.keys) = 1 /\ StartsWithBrace(call.arg.keys[1]))
            /\ call.ret.how # "reconstructed"
                => (call.ret.how = "asIs" /\ call.ret.ok /\ call.ret.val = call.arg.val)
        /\ call.arg.shape = "string" =>
            /\ call.ret.how = "parsed"
            /\ call.ret.ok = ParseOK(call.arg.text)
            /\ call.ret.ok => call.ret.val = ParseVal(call.arg.text)

Summarised == call.fn = "summary" /\ call.done /\ ~call.ret.threw

\* the bases of a list that belong to a faction group: to US, USSR or FIA
\* the bases of that faction, to Neutral every other base
BelongsTo(base, f) ==
    IF f = "Neutral" THEN base.faction \notin {"US", "USSR", "FIA"}
    ELSE base.faction = f

BasesOf(bases, f) == {i \in 1..Len(bases) : BelongsTo(bases[i], f)}

TypedBases(bases) == \A i \in 1..Len(bases) : bases[i].type \in {"HQ", "FOB", "POI"}

Settled == call.fn = "background" /\ call.done

\* the background was not drawn: there is no file, or loading or drawing
\* the image failed
NoBackground == ~call.file \/ call.load \in {"loadFailed", "drawFailed"}

\* C23: a generateMapImage call that finds no background file, or whose
\* background fails to load, has drawn the flat fill in its place, and
\* returns an image whenever drawing the bases does not throw.
C23_BackgroundFailureFallsBack ==
    (Settled /\ NoBackground) =>
        /\ call.bg = "fill"
        /\ ~GenerateMapImage(call.arg).threw => call.image

\* loadImage rejected, and the call returned the image of two borders on the
\* flat fill
C23_Witness ==
    /\ Settled
    /\ call.file
    /\ call.load = "loadFailed"
    /\ call.arg = TwoBorders
    /\ call.bg = "fill"
    /\ call.image
    /\ Cardinality(call.ret.borders) = 2

\* C24: no publish is left without a continuation: a publish whose
\* background load never settles is taken on by a timeout, falls back to the
\* flat fill and goes on to its send step or its end.
C24_StalledLoadTimesOut == \A pub \in InFlightPubs : ENABLED Continues(pub)

\* what /declarewar and /declarepeace by member m with options sel at time
\* now would make of the present state
WarOutcome(m, sel, now) == DeclareWarOutcome(warState, m, memberRoles[m], sel, now)
PeaceOutcome(m, sel) == DeclarePeaceOutcome(warState, memberRoles[m], sel)

\* the command leaves every field of warState as it is and saves nothing
Rejected(o) == o.war = warState /\ ~o.saved /\ WarFileAfter(warFile, o) = warFile

ResolvedRank(m) == GetPlayerDataFromMember(memberRoles[m]).rank
ResolvedNation(m) == GetPlayerDataFromMember(memberRoles[m]).nationality

\* C25: in every state, /declarewar and /declarepeace by a member whose rank
\* does not resolve to Head_of_State, whatever the options, leave every
\* field of warState unchanged and save nothing; and a command answered
\* "only Heads of State" has changed neither warState nor the war file.
C25_OnlyHeadOfStateChangesWar ==
    /\ [](\A m \in Members, sel \in Selections, now \in Times :
            ResolvedRank(m) # "Head_of_State"
                => Rejected(WarOutcome(m, sel, now)) /\ Rejected(PeaceOutcome(m, sel)))
    /\ [][interaction'.reply = "onlyHeadsOfState"
            => (warState' = warState /\ warFile' = warFile)]_vars

\* a war on two nations is on, and the /declarepeace of a member who is no
\* Head of State was turned down
C25_Witness ==
    /\ warState.active
    /\ Len(warState.targetNations) = 2
    /\ warFile.state = warState
    /\ interaction = [cmd |-> "declarepeace", reply |-> "onlyHeadsOfState"]

NoDuplicates(list) == \A i, j \in 1..Len(list) : list[i] = list[j] => i = j

\* C26: targetNations never holds a nation twice; a /declarewar by a Head of
\* State of nation N leaves N out of targetNations unless N was a target
\* before; and such a command whose options all name N is turned down with
\* warState unchanged.
C26_NoOwnNationNoDuplicates ==
    /\ NoDuplicates(warState.targetNations)
    /\ \A m \in Members, sel \in Selections, now \in Times :
            ResolvedRank(m) = "Head_of_State" =>
                LET o == WarOutcome(m, sel, now) IN
                /\ NoDuplicates(o.war.targetNations)
                /\ Includes(o.war.targetNations, ResolvedNation(m))
                        => Includes(warState.targetNations, ResolvedNation(m))
                /\ (\A i \in 1..3 : sel[i] \in {ResolvedNation(m), "null"})
                        => (Rejected(o) /\ o.reply = "ownNation")

\* a war is on, and a /declarewar of a Head of State that named nothing but
\* the member's own nation was turned down
C26_Witness ==
    /\ warState.active
    /\ interaction = [cmd |-> "declarewar", reply |-> "ownNation"]

\* the nations named by the options of a command
Named(sel) == {sel[i] : i \in 1..3} \ {"null"}

\* the nations a /declarewar by member m with options sel would newly
\* target: named, not the member's own nation, and no target yet
NewTargets(m, sel) ==
    {t \in Named(sel) : t # ResolvedNation(m) /\ ~Includes(warState.targetNations, t)}

\* list is old followed by each nation of more once
AppendsExactly(list, old, more) ==
    /\ Len(list) = Len(old) + Cardinality(more)
    /\ SubSeq(list, 1, Len(old)) = old
    /\ {list[i] : i \in (Len(old) + 1)..Len(list)} = more

\* C27: while a war is active, a /declarewar by a Head of State with at
\* least one new target appends exactly the new targets to targetNations,
\* keeps the targets there were, in their order, and leaves active,
\* declaredBy, declaredAt and declaredByNation as they are; without a new
\* target (every nation named is a target already, or the own nation) the
\* command is turned down with warState unchanged.
C27_ExpansionAppendsNewTargets ==
    warState.active =>
        \A m \in Members, sel \in Selections, now \in Times :
            ResolvedRank(m) = "Head_of_State" =>
                LET o == WarOutcome(m, sel, now) IN
                IF NewTargets(m, sel) # {}
                THEN /\ AppendsExactly(o.war.targetNations, warState.targetNations,
                                       NewTargets(m, sel))
                     /\ o.war.active
                     /\ o.war.declaredBy = warState.declaredBy
                     /\ o.war.declaredAt = warState.declaredAt
                     /\ o.war.declaredByNation = warState.declaredByNation
                     /\ o.saved
                ELSE Rejected(o)

\* the war the Head of State of the US declared on the USSR was expanded
\* to FIA
C27_Witness ==
    /\ interaction = [cmd |-> "declarewar", reply |-> "warExpanded"]
    /\ warState.active
    /\ warState.declaredBy = "hosUS"
    /\ warState.declaredByNation = "US"
    /\ warState.targetNations = <<"USSR", "FIA">>
    /\ warFile.state = warState

\* C28: while a war is active, a /declarepeace that is accepted leaves as
\* targets the previous targets without the nations named, in their order;
\* if none is left the war has ended (active false, declaredBy, declaredAt
\* and declaredByNation null, participants and targetNations empty), and
\* else the war is still active.
C28_PeaceEndsOrContinues ==
    \A m \in Members, sel \in Selections :
        LET o == PeaceOutcome(m, sel)
            left(t) == t \notin Named(sel)
            rest == SelectSeq(warState.targetNations, left)
        IN o.saved =>
            /\ warState.active
            /\ o.war.targetNations = rest
            /\ IF Len(rest) = 0 THEN o.war = InitialWarState ELSE o.war.active

\* a /declarepeace ended the war: the war state is the initial one again,
\* and it was saved
C28_Witness ==
    /\ interaction = [cmd |-> "declarepeace", reply |-> "peace"]
    /\ warState = InitialWarState
    /\ warFile = [exists |-> TRUE, state |-> InitialWarState]

\* C29: after /linkidentity with identity id I by member M the command has
\* answered with the "Linked Game Identity ID" confirmation, and a lookup of
\* I answers 200 with the record of M.
C29_LinkConfirmsAndIsFound ==
    interaction.cmd = "linkidentity" =>
        /\ interaction.reply = "linked"
        /\ \A fresh \in BOOLEAN :
            LET r == PlayerResponse(playerData, memberRoles, interaction.id, fresh)
            IN r.status = 200 /\ r.body.discordId = interaction.member

OfOneRead(pub) ==
    /\ pub.fields = SummaryFields(pub.src)
    /\ pub.pc = "render" \/ pub.image => pub.arg = pub.src
    /\ \/ pub.war = [active |-> FALSE, declaredBy |-> "none"]
       \/ pub.war.active /\ pub.war.declaredBy \in Members

C31_MessageOfOneSnapshotAndWarRead ==
    /\ lastMsg.pc # "idle" => OfOneRead(lastMsg)
    /\ \A pub \in InFlightPubs : OfOneRead(pub)

\* a message with an image was sent under the war header while by now the
\* snapshot has been replaced and peace has been made
C31_Witness ==
    /\ lastMsg.pc = "send"
    /\ lastMsg.image
    /\ lastMsg.war.active
    /\ ~warState.active
    /\ lastMsg.src # territoryData

\* C32: whenever no publish is in flight, the slot is empty or holds the id
\* of a message that exists on the channel.
C32_SlotNamesLiveMessage ==
    Quiet => (territoryMessageId = 0 \/ territoryMessageId \in live)

\* C33: an updateTerritoryMap call never rejects: whatever it meets (no
\* channel, a corrupt or null snapshot, a base entry the loop throws on, a
\* failed render, fetch, delete or send), its promise resolves.
C33_UpdateNeverRejects ==
    (call.fn = "updateTerritoryMap" /\ call.done) => call.ret.settled = "resolved"

\* a call whose render, fetch and send all failed: each failure went to its
\* own catch and the call resolved without a message sent
C33_Witness ==
    /\ call.fn = "updateTerritoryMap"
    /\ call.done
    /\ call.ret.caught = {644, 661, 669}
    /\ ~call.ret.sent
    /\ call.ret.settled = "resolved"

\* C34: after any sequence of /declarewar and /declarepeace commands the
\* war is active exactly when there are target nations, and a war state
\* that is not active has declaredBy, declaredAt and declaredByNation null
\* and no participants.
C34_ActiveIffTargets ==
    /\ warState.active <=> Len(warState.targetNations) > 0
    /\ ~warState.active =>
        /\ warState.declaredBy = "null"
        /\ warState.declaredAt = "null"
        /\ warState.declaredByNation = "null"
        /\ warState.participants = <<>>

\* a war on two nations goes on against one of them after a peace with the
\* other
C34_Witness ==
    /\ interaction = [cmd |-> "declarepeace", reply |-> "partialPeace"]
    /\ warState.active
    /\ Len(warState.targetNations) = 1
    /\ Len(warState.participants) = 2
    /\ warFile.state = warState

\* C35: after any sequence of /declarewar and /declarepeace commands by
\* Heads of State, the declaring nation is not among the target nations.
C35_DeclarerIsNoTarget ==
    ~Includes(warState.targetNations, warState.declaredByNation)

\* C36: whenever a war is active, participants holds the declaring nation
\* and each target nation exactly once, and nothing else.
C36_ParticipantsOnceEach ==
    warState.active =>
        /\ NoDuplicates(warState.participants)
        /\ {warState.participants[i] : i \in 1..Len(warState.participants)}
            = {warState.declaredByNation}
              \cup {warState.targetNations[i] : i \in 1..Len(warState.targetNations)}

\* C37: a /declarepeace by a Head of State whose nation is neither the
\* declaring nation nor a target of the active war leaves warState as it is.
C37_PeaceOnlyByParties ==
    \A m \in Members, sel \in Selections :
        (/\ warState.active
         /\ IsHeadOfState(memberRoles[m])
         /\ ResolvedNation(m) # warState.declaredByNation
         /\ ~Includes(warState.targetNations, ResolvedNation(m)))
        => PeaceOutcome(m, sel).war = warState

\* C38: the embed built for a snapshot has at least one field: the "No Data"
\* placeholder for a snapshot without bases, and at least one faction
\* section for a snapshot with bases, whatever the types of the bases.
C38_AtLeastOneSection ==
    (call.fn = "summary" /\ call.done /\ ~call.ret.threw) =>
        /\ Len(call.ret.fields) >= 1
        /\ Len(call.arg) = 0 => call.ret.fields = <<NoDataField>>
        /\ Len(call.arg) > 0 => call.ret.fields[1].section \in {FactionKeys[i] : i \in 1..4}

\* the points of a sequence, and a sequence whose points are all at one
\* location
PointsOf(points) == {points[i] : i \in 1..Len(points)}
AllEqual(points) == \A i, j \in 1..Len(points) : points[i] = points[j]

\* C39: convexHull leaves the array passed in as it was given and returns
\* only points of the input, each location at most once, the first vertex
\* not repeated at the end.
C39_HullPointsOnce ==
    Returned =>
        /\ call.arg = call.given
        /\ PointsOf(call.ret) \subseteq PointsOf(call.given)
        /\ NoDuplicates(call.ret)
        /\ Len(call.ret) >= 2 => call.ret[Len(call.ret)] # call.ret[1]

\* C39 amended: convexHull leaves the array passed in as it was given and
\* returns only points of the input; for two or more input points that are
\* all at one location it returns that location twice, and for every other
\* input each location at most once, the first vertex not repeated at the
\* end.
C39_HullPointsOnceUnlessAllEqual ==
    Returned =>
        /\ call.arg = call.given
        /\ PointsOf(call.ret) \subseteq PointsOf(call.given)
        /\ IF Len(call.given) >= 2 /\ AllEqual(call.given)
           THEN call.ret = <<call.given[1], call.given[1]>>
           ELSE /\ NoDuplicates(call.ret)
                /\ Len(call.ret) >= 2 => call.ret[Len(call.ret)] # call.ret[1]

\* four points given out of sort order, one of them twice: the array is as
\* it was given and the hull holds each of the three corners once
C39_Witness ==
    /\ Returned
    /\ call.given = <<Pt(2, 0), Pt(0, 2), Pt(0, 0), Pt(2, 0)>>
    /\ call.arg = call.given
    /\ call.ret = <<Pt(0, 0), Pt(2, 0), Pt(0, 2)>>

\* the identity id in the record of member m, "none" without a record
SteamIdOf(pd, m) == IF PlaceOf(pd, m) = 0 THEN "none" ELSE pd[PlaceOf(pd, m)].steamId

\* C40: once the record of a member holds an identity id set by
\* /linkidentity, every step that is not a /linkidentity of that member (a
\* sync, /setnationality, /setrank, /choosenationality) leaves that id in
\* the record.
C40_LinkSurvivesBookkeeping ==
    [][\A m \in Bookkept :
          (/\ SteamIdOf(playerData, m) \in IdentityIds
           /\ ~\E id \in IdentityIds : LinkIdentity(m, id))
          => SteamIdOf(playerData', m) = SteamIdOf(playerData, m)]_vars

\* the member without roles linked ID1 and got the nationality FIA, a sync
\* ran and the member was made Head of State: the record still holds ID1,
\* with the nationality and rank of the roles
C40_Witness ==
    /\ Len(playerData) = Len(MemberOrder)
    /\ interaction.cmd = "setrank"
    /\ memberRoles["newcomer"] = {"FIA", "Head_of_State"}
    /\ playerData[PlaceOf(playerData, "newcomer")]
        = [discordId |-> "newcomer", steamId |-> "ID1", nationality |-> "FIA",
           rank |-> "Head_of_State"]
    /\ SteamIdOf(playerData, "general") = "null"
    /\ commands["newcomer"] = NoCommand

====
